---- MODULE Spec2Model ----
(***************************************************************************)
(* Verification model of the ITSM service-desk dashboard:                  *)
(*   - record enrichment (DataIngestManager._clean_incidents_data), a      *)
(*     pandas left merge of the incident frame with the category and the   *)
(*     service reference tables;                                           *)
(*   - label-based extraction of AI responses (triage, KB generation,      *)
(*     agent matching) as written in utils/bedrock_client.py and in the    *)
(*     dashboard pages;                                                    *)
(*   - AI incident generation (DataIngestManager.generate_ai_incidents):   *)
(*     fence cleaning and JSON parsing of a batch, the validation of one   *)
(*     generated object, and the store operations of a call;               *)
(*   - BedrockClient.invoke_model, request by request;                     *)
(*   - the workload queue (DataService.get_workload);                      *)
(*   - the lookup and the priority and assignment updates of DataService,  *)
(*     for one service object and for two sessions whose store calls       *)
(*     interleave;                                                         *)
(*   - SettingsManager: construction, dotted-path reads and writes.        *)
(*                                                                         *)
(* A data frame is a record [cols, rows]: cols is the set of column names, *)
(* rows the sequence of rows, each row a function from cols to cell        *)
(* values.  Cell values are strings; NaN is the pandas missing value.      *)
(***************************************************************************)
EXTENDS Integers, Sequences, FiniteSets, TLC

VARIABLES
    phase,       \* which scenario the state belongs to and how far it got
    raw,         \* the incident frame as read from the CSV (pd.read_csv)
    categories,  \* dummydata/category_tree.csv:   [exists, cols, rows]
    services,    \* dummydata/services_catalog.csv: [exists, cols, rows]
    df,          \* the frame returned by the last _clean_incidents_data
    prev,        \* the frame that call was given
    raised,      \* TRUE iff an exception escaped the last call
    schema,      \* which extractor reads the response
    response,    \* text returned by invoke_model: None or a sequence of lines
    record,      \* the field values the response was serialized from, if any
    result,      \* the record extracted from the response
    fenced,      \* the record extracted from the response wrapped in fences
    batch,       \* one _generate_ai_batch call: its response and its outcome
    proc,        \* one _process_ai_incident call: its arguments and its result
    gen,         \* the generation or ingestion call in progress, and past calls
    store,       \* the MongoDB collections the generation writes
    inv,         \* one invoke_model call: position and the requests it issued
    view,        \* get_workload: the stored incidents and the frame returned
    sess         \* the sessions or service objects of a scenario, by name

vars == <<phase, raw, categories, services, df, prev, raised,
          schema, response, record, result, fenced,
          batch, proc, gen, store, inv, view, sess>>

None == "None"

\* an optional value: Nothing is Python's None
Nothing == [some |-> FALSE]
Some(v) == [some |-> TRUE, value |-> v]

\* a scenario that is not running
Idle == [pc |-> "idle"]
CallsIdle ==
    /\ batch = Idle
    /\ proc = Idle
    /\ gen = Idle
    /\ store = Idle
    /\ inv = Idle
    /\ view = Idle
    /\ sess = Idle

---------------------------------------------------------------------------
(* Bounds *)

MaxRows == 2        \* rows of the incident frame
RefRows == 2        \* rows of a reference table

---------------------------------------------------------------------------
(* Values *)

NaN == "NaN"                     \* pandas missing-value marker
Key == "K1"                      \* the identifier incident rows may carry
RefKeys == {"K1", "K2"}          \* identifiers of reference rows
RefNames == <<"Email", "VPN", "Wifi", "Print">>   \* name of the j-th row

EmptyFrame == [cols |-> {}, rows |-> <<>>]
NoFile == [exists |-> FALSE, cols |-> {}, rows |-> <<>>]

CategoryNameCol == "category_name"

ServiceNameCol_copyPaste == "category_name"
ServiceNameCol == "service_name"

RequiredCols == {"incident_id", "short_description", "description", "true_priority"}

---------------------------------------------------------------------------
(* Frame helpers (pandas semantics) *)

Restrict(row, S) == [c \in S |-> row[c]]

\* DataFrame.fillna(''): every missing cell becomes the empty string
FillNa(frame) ==
    [cols |-> frame.cols,
     rows |-> [i \in 1..Len(frame.rows) |->
                 [c \in frame.cols |->
                    IF frame.rows[i][c] = NaN THEN "" ELSE frame.rows[i][c]]]]

\* df[col] = '' for every required column that is absent
EnsureRequired(frame) ==
    [cols |-> frame.cols \cup RequiredCols,
     rows |-> [i \in 1..Len(frame.rows) |->
                 [c \in frame.cols \cup RequiredCols |->
                    IF c \in frame.cols THEN frame.rows[i][c] ELSE ""]]]

\* ref[cols].rename(columns={'name': newName}); KeyError when a selected
\* column is absent
Project(ref, selected, newName) ==
    IF ~(selected \subseteq ref.cols)
    THEN [ok |-> FALSE, frame |-> EmptyFrame]
    ELSE LET ren(c) == IF c = "name" THEN newName ELSE c
             newCols == {ren(c) : c \in selected}
         IN [ok |-> TRUE,
             frame |-> [cols |-> newCols,
                        rows |-> [j \in 1..Len(ref.rows) |->
                                    [n \in newCols |->
                                       ref.rows[j][CHOOSE c \in selected : ren(c) = n]]]]]

\* indices of the right rows whose key equals k, in right order
RECURSIVE MatchesFrom(_, _, _, _)
MatchesFrom(right, key, k, j) ==
    IF j > Len(right.rows) THEN <<>>
    ELSE (IF right.rows[j][key] = k THEN <<j>> ELSE <<>>)
         \o MatchesFrom(right, key, k, j + 1)

Matches_firstOnly(right, key, k) ==
    LET m == MatchesFrom(right, key, k, 1)
    IN IF m = <<>> THEN <<>> ELSE <<Head(m)>>
Matches(right, key, k) == MatchesFrom(right, key, k, 1)

\* how='left': a left row without a match is kept (once)
NoMatchRows_inner(row) == <<>>
NoMatchRows(row) == <<row>>

\* left.merge(right, on=key, how='left'), default suffixes ('_x', '_y'):
\* every left row is kept in order; a left row with m >= 1 matching right
\* rows yields m rows (in right order), one with no match yields one row
\* whose right columns are NaN; a non-key column present on both sides is
\* renamed c_x on the left and c_y on the right.
MergeLeft(left, right, key) ==
    LET overlap == (left.cols \cap right.cols) \ {key}
        lname(c) == IF c \in overlap THEN c \o "_x" ELSE c
        rname(c) == IF c \in overlap THEN c \o "_y" ELSE c
        rcols == right.cols \ {key}
        lnames == {lname(c) : c \in left.cols}
        newCols == lnames \cup {rname(c) : c \in rcols}
        joined(l, j) ==
            [n \in newCols |->
               IF n \in lnames
               THEN l[CHOOSE c \in left.cols : lname(c) = n]
               ELSE IF j = 0 THEN NaN
                    ELSE right.rows[j][CHOOSE c \in rcols : rname(c) = n]]
        expand(l) ==
            LET m == Matches(right, key, l[key])
            IN IF m = <<>> THEN NoMatchRows(joined(l, 0))
               ELSE [q \in 1..Len(m) |-> joined(l, m[q])]
        out[i \in 0..Len(left.rows)] ==
            IF i = 0 THEN <<>> ELSE out[i - 1] \o expand(left.rows[i])
    IN [cols |-> newCols, rows |-> out[Len(left.rows)]]

---------------------------------------------------------------------------
(* _clean_incidents_data *)

\* category_cols = ['category_id', 'name'] (+ 'path' when present)
CategoryCols(ref) ==
    {"category_id", "name"} \cup (IF "path" \in ref.cols THEN {"path"} ELSE {})

\* service_cols = ['service_id', 'name'] (+ 'criticality' when present)
ServiceCols(ref) ==
    {"service_id", "name"} \cup (IF "criticality" \in ref.cols THEN {"criticality"} ELSE {})

\* body of one try block: outcome [ok, frame]; ok = FALSE is an exception
\* raised inside the block
TryMerge(frame, ref, key, selected, newName) ==
    IF ~ref.exists THEN [ok |-> TRUE, frame |-> frame]
    ELSE IF key \in frame.cols /\ key \in ref.cols
    THEN LET p == Project(ref, selected, newName)
         IN IF p.ok THEN [ok |-> TRUE, frame |-> MergeLeft(frame, p.frame, key)]
            ELSE [ok |-> FALSE, frame |-> frame]
    ELSE [ok |-> TRUE, frame |-> frame]

\* except Exception as e: logger.warning(...) -- the frame is as it was
\* before the block and nothing propagates
ExceptWarn_propagate(before, outcome) ==
    IF outcome.ok THEN [frame |-> outcome.frame, raised |-> FALSE]
    ELSE [frame |-> before, raised |-> TRUE]
ExceptWarn(before, outcome) ==
    IF outcome.ok THEN [frame |-> outcome.frame, raised |-> FALSE]
    ELSE [frame |-> before, raised |-> FALSE]

EnrichCategories(frame, cats) ==
    ExceptWarn(frame,
        TryMerge(frame, cats, "category_id", CategoryCols(cats), CategoryNameCol))

EnrichServices(frame, svcs) ==
    ExceptWarn(frame,
        TryMerge(frame, svcs, "service_id", ServiceCols(svcs), ServiceNameCol))

\* the frame entering the joins
Prepare(frame) == EnsureRequired(FillNa(frame))

CleanIncidentsData(frame, cats, svcs) ==
    LET c == EnrichCategories(Prepare(frame), cats)
        s == EnrichServices(c.frame, svcs)
    IN [frame |-> s.frame, raised |-> c.raised \/ s.raised]

---------------------------------------------------------------------------
(* Inputs *)

\* an incident frame: incident_id and optional category_id, service_id
\* columns (the other required columns are absent from the file)
RawCols == {"incident_id", "category_id", "service_id"}

RawCell(c) == IF c = "incident_id" THEN {"INC1"} ELSE {Key, NaN}

\* the rows a file with columns cs may hold
RawRows(cs) ==
    {r \in [cs -> {"INC1", Key, NaN}] : \A c \in cs : r[c] \in RawCell(c)}

RawFrames ==
    UNION { UNION { { [cols |-> cs, rows |-> r] : r \in [1..n -> RawRows(cs)] }
                    : n \in 1..MaxRows }
            : cs \in {c \in SUBSET RawCols : "incident_id" \in c} }

\* a reference table: row j is named RefNames[j]; the key column, the name
\* column and the optional extra column may each be absent
RefTables(keyCol, extraCol, extraVal) ==
    {NoFile} \cup
    UNION { { [exists |-> TRUE,
               cols |-> cs,
               rows |-> [j \in 1..Len(ks) |->
                           [c \in cs |-> IF c = keyCol THEN ks[j]
                                         ELSE IF c = "name" THEN RefNames[j]
                                         ELSE extraVal]]]
              : cs \in {{keyCol, "name", extraCol}, {keyCol, "name"},
                        {keyCol, extraCol}, {"name", extraCol}} }
            : ks \in [1..RefRows -> RefKeys] }

---------------------------------------------------------------------------
(* Enrichment scenario: load the inputs, clean, clean the result again *)

InitEnrich ==
    /\ phase = "loaded"
    /\ raw \in RawFrames
    /\ categories \in RefTables("category_id", "path", "/Root")
    /\ services \in RefTables("service_id", "criticality", "High")
    /\ df = raw
    /\ prev = EmptyFrame
    /\ raised = FALSE
    /\ schema = None
    /\ response = Nothing
    /\ record = Nothing
    /\ result = Nothing
    /\ fenced = Nothing
    /\ CallsIdle

\* ingest_incidents_data: df = self._clean_incidents_data(df)
Clean ==
    /\ phase = "loaded"
    /\ LET r == CleanIncidentsData(df, categories, services)
       IN /\ df' = r.frame
          /\ raised' = r.raised
    /\ prev' = df
    /\ phase' = "enriched"
    /\ UNCHANGED <<raw, categories, services, schema, response, record, result, fenced,
                 batch, proc, gen, store, inv, view, sess>>

\* _clean_incidents_data applied to its own output
CleanAgain ==
    /\ phase = "enriched"
    /\ LET r == CleanIncidentsData(df, categories, services)
       IN /\ df' = r.frame
          /\ raised' = r.raised
    /\ prev' = df
    /\ phase' = "reenriched"
    /\ UNCHANGED <<raw, categories, services, schema, response, record, result, fenced,
                 batch, proc, gen, store, inv, view, sess>>

NextEnrich == Clean \/ CleanAgain

SpecEnrich == InitEnrich /\ [][NextEnrich]_vars

---------------------------------------------------------------------------
(* Properties of enrichment *)

\* the frame that entered the joins of the last call
JoinInput == Prepare(prev)

\* the relationship is declared applicable by the code's guards and its
\* projection succeeds
Applies(frame, ref, key) ==
    /\ ref.exists
    /\ key \in frame.cols
    /\ key \in ref.cols
    /\ "name" \in ref.cols

\* the relationship has to be skipped: a join column or a projected column
\* is absent
Skipped(frame, ref, key) ==
    /\ ref.exists
    /\ (key \notin frame.cols \/ key \notin ref.cols \/ "name" \notin ref.cols)

RefMatches(ref, key, k) ==
    {j \in 1..Len(ref.rows) : ref.rows[j][key] = k}

\* df is a left join of inp with ref on key, the name shown in nameCol
IsLeftJoin(inp, out, ref, key, nameCol) ==
    /\ nameCol \in out.cols
    /\ \A p \in 1..Len(out.rows) :
         LET o == out.rows[p]
         IN /\ \E i \in 1..Len(inp.rows) : Restrict(o, inp.cols) = inp.rows[i]
            /\ \/ \E j \in RefMatches(ref, key, o[key]) : o[nameCol] = ref.rows[j]["name"]
               \/ RefMatches(ref, key, o[key]) = {} /\ o[nameCol] = NaN
    /\ \A i \in 1..Len(inp.rows) :
         LET m == RefMatches(ref, key, inp.rows[i][key])
         IN /\ \A j \in m :
                 \E p \in 1..Len(out.rows) :
                    /\ Restrict(out.rows[p], inp.cols) = inp.rows[i]
                    /\ out.rows[p][nameCol] = ref.rows[j]["name"]
            /\ m = {} =>
                 \E p \in 1..Len(out.rows) :
                    /\ Restrict(out.rows[p], inp.cols) = inp.rows[i]
                    /\ out.rows[p][nameCol] = NaN

\* C1: enrichment is a left join on category_id and on service_id: nothing
\* is raised, every original column and every incident row is kept, a row
\* whose key equals a reference row's key shows that row's name and a row
\* without a match shows the missing-value marker.
C1_LeftJoin ==
    phase = "enriched" =>
       /\ ~raised
       /\ JoinInput.cols \subseteq df.cols
       /\ \A i \in 1..Len(JoinInput.rows) :
             \E p \in 1..Len(df.rows) :
                Restrict(df.rows[p], JoinInput.cols) = JoinInput.rows[i]
       /\ Applies(JoinInput, categories, "category_id") =>
             IsLeftJoin(JoinInput, df, categories, "category_id", "category_name")
       /\ Applies(JoinInput, services, "service_id") =>
             IsLeftJoin(JoinInput, df, services, "service_id", "service_name")

C1_Witness ==
    /\ phase = "enriched"
    /\ {"category_name", "service_name"} \subseteq df.cols
    /\ \E p, q \in 1..Len(df.rows) :
          /\ df.rows[p]["service_id"] = "K1"
          /\ df.rows[p]["service_name"] = "Email"
          /\ df.rows[q]["service_id"] = ""
          /\ df.rows[q]["service_name"] = NaN
          /\ df.rows[q]["incident_id"] = "INC1"

CategoryAdded == {"category_name", "path"}
ServiceAdded == {"service_name", "criticality"}

SameRowsOn(inp, out) ==
    {Restrict(out.rows[p], inp.cols) : p \in 1..Len(out.rows)}
        = {inp.rows[i] : i \in 1..Len(inp.rows)}

\* C2: a relationship whose join column or projected column is absent is
\* skipped without raising: it adds no column and changes no row, and the
\* other relationship is still applied.
C2_SkipMissingColumn ==
    phase = "enriched" =>
       /\ Skipped(JoinInput, categories, "category_id") =>
             /\ ~raised
             /\ df.cols \cap CategoryAdded = {}
             /\ JoinInput.cols \subseteq df.cols
             /\ df.cols \ ServiceAdded = JoinInput.cols
             /\ SameRowsOn(JoinInput, df)
             /\ Applies(JoinInput, services, "service_id") =>
                   IsLeftJoin(JoinInput, df, services, "service_id", "service_name")
       /\ Skipped(JoinInput, services, "service_id") =>
             /\ ~raised
             /\ df.cols \cap ServiceAdded = {}
             /\ JoinInput.cols \subseteq df.cols
             /\ df.cols \ CategoryAdded = JoinInput.cols
             /\ SameRowsOn(JoinInput, df)
             /\ Applies(JoinInput, categories, "category_id") =>
                   IsLeftJoin(JoinInput, df, categories, "category_id", "category_name")
       /\ (Skipped(JoinInput, categories, "category_id")
             /\ Skipped(JoinInput, services, "service_id")) => df = JoinInput

C2_Witness ==
    /\ phase = "enriched"
    /\ categories.exists
    /\ "category_id" \in categories.cols
    /\ "name" \notin categories.cols
    /\ "category_id" \in JoinInput.cols
    /\ "service_name" \in df.cols
    /\ \E p \in 1..Len(df.rows) : df.rows[p]["service_name"] = "Email"

\* C3 (as claimed): running _clean_incidents_data on its own output yields
\* the same enrichment columns with the same values per row and the same
\* number of rows as the first run.
C3_Idempotent ==
    phase = "reenriched" =>
       /\ (prev.cols \cap (CategoryAdded \cup ServiceAdded)) \subseteq df.cols
       /\ Len(df.rows) = Len(prev.rows)
       /\ \A i \in 1..Len(prev.rows) :
             \A c \in prev.cols \cap (CategoryAdded \cup ServiceAdded) :
                df.rows[i][c] = prev.rows[i][c]

Count(rows, r) == Cardinality({i \in 1..Len(rows) : rows[i] = r})

SameBag(a, b) ==
    /\ Len(a) = Len(b)
    /\ \A i \in 1..Len(a) : Count(a, a[i]) = Count(b, a[i])

\* the two joins in the other order
ServicesThenCategories(inp) ==
    EnrichCategories(EnrichServices(inp, services).frame, categories).frame

\* some incident row matches several rows of both reference tables
DoubleFanOut(inp) ==
    /\ Applies(inp, categories, "category_id")
    /\ Applies(inp, services, "service_id")
    /\ \E i \in 1..Len(inp.rows) :
          /\ Cardinality(RefMatches(categories, "category_id", inp.rows[i]["category_id"])) > 1
          /\ Cardinality(RefMatches(services, "service_id", inp.rows[i]["service_id"])) > 1

\* C4 (as claimed): the joins applied in either order yield the same
\* columns and the same values in every row.
C4_CommuteRowByRow ==
    phase = "enriched" => df = ServicesThenCategories(JoinInput)

\* C4 (amended): the joins applied in either order yield the same set of
\* columns and the same rows with the same multiplicities; the rows are
\* also in the same order unless an incident row matches several rows of
\* both reference tables.
C4_CommuteUpToRowOrder ==
    phase = "enriched" =>
       LET other == ServicesThenCategories(JoinInput)
       IN /\ df.cols = other.cols
          /\ SameBag(df.rows, other.rows)
          /\ ~DoubleFanOut(JoinInput) => df.rows = other.rows

C4_Witness ==
    /\ phase = "enriched"
    /\ DoubleFanOut(JoinInput)
    /\ {"category_name", "service_name"} \subseteq df.cols
    /\ df.rows # ServicesThenCategories(JoinInput).rows

FirstMatch(ref, key, k) ==
    CHOOSE j \in RefMatches(ref, key, k) : \A h \in RefMatches(ref, key, k) : j <= h

\* C5 (as claimed): first-match-wins: one output row per incident row, in
\* order, carrying the name of the first matching reference row.
C5_FirstMatchWins ==
    phase = "enriched" =>
       /\ Len(df.rows) = Len(JoinInput.rows)
       /\ \A i \in 1..Len(JoinInput.rows) :
             /\ Restrict(df.rows[i], JoinInput.cols) = JoinInput.rows[i]
             /\ (Applies(JoinInput, categories, "category_id")
                   /\ RefMatches(categories, "category_id", JoinInput.rows[i]["category_id"]) # {}) =>
                   df.rows[i]["category_name"] =
                      categories.rows[FirstMatch(categories, "category_id",
                                                 JoinInput.rows[i]["category_id"])]["name"]
             /\ (Applies(JoinInput, services, "service_id")
                   /\ RefMatches(services, "service_id", JoinInput.rows[i]["service_id"]) # {}) =>
                   df.rows[i]["service_name"] =
                      services.rows[FirstMatch(services, "service_id",
                                               JoinInput.rows[i]["service_id"])]["name"]

\* names an incident row is shown with for one relationship, in order:
\* the names of all matching reference rows, the marker when there is none,
\* and a single placeholder when the relationship is not applied
NamesFor(inp, ref, key, row) ==
    IF ~Applies(inp, ref, key) THEN <<"-">>
    ELSE LET m == {j \in 1..Len(ref.rows) : ref.rows[j][key] = row[key]}
             upto(j) == Cardinality({h \in m : h <= j})
         IN IF m = {} THEN <<NaN>>
            ELSE [q \in 1..Cardinality(m) |->
                    ref.rows[CHOOSE j \in m : upto(j) = q]["name"]]

\* the (category name, service name) pairs expected for the whole frame
ExpectedPairs(inp) ==
    LET pairs(row) ==
           LET cn == NamesFor(inp, categories, "category_id", row)
               sn == NamesFor(inp, services, "service_id", row)
           IN [q \in 1..(Len(cn) * Len(sn)) |->
                 [row |-> row,
                  cname |-> cn[((q - 1) \div Len(sn)) + 1],
                  sname |-> sn[((q - 1) % Len(sn)) + 1]]]
        acc[i \in 0..Len(inp.rows)] ==
           IF i = 0 THEN <<>> ELSE acc[i - 1] \o pairs(inp.rows[i])
    IN acc[Len(inp.rows)]

\* C5 (amended): duplicate keys fan out: for every incident row, in order,
\* the output has one row per matching category row and matching service
\* row (in reference order), each carrying the incident's original values
\* and the names of that pair, or the missing marker where nothing matches.
C5_FanOut ==
    phase = "enriched" =>
       LET e == ExpectedPairs(JoinInput)
       IN /\ Len(df.rows) = Len(e)
          /\ \A p \in 1..Len(e) :
                /\ Restrict(df.rows[p], JoinInput.cols) = e[p].row
                /\ Applies(JoinInput, categories, "category_id") =>
                      /\ "category_name" \in df.cols
                      /\ df.rows[p]["category_name"] = e[p].cname
                /\ Applies(JoinInput, services, "service_id") =>
                      /\ "service_name" \in df.cols
                      /\ df.rows[p]["service_name"] = e[p].sname

C5_Witness ==
    /\ phase = "enriched"
    /\ "category_name" \in df.cols
    /\ Len(df.rows) > Len(prev.rows)
    /\ \E p \in 1..(Len(df.rows) - 1) :
          /\ df.rows[p]["category_id"] = "K1"
          /\ df.rows[p]["category_name"] = "Email"
          /\ df.rows[p + 1]["category_name"] = "VPN"


---------------------------------------------------------------------------
(* Text of an AI response                                                  *)
(*                                                                         *)
(* A line is a sequence of tokens: a label word, ":", a blank, a word and  *)
(* a code fence are one token each.  A response is None or the sequence of *)
(* its lines, response.split('\n'); the empty string is one empty line.    *)

MaxLines == 3        \* lines of a free-form response
MaxValueLines == 2   \* lines of the multi-line field of a serialized record

Colon == ":"
Blank == " "
NL == "\n"
Fence == "<fence>"    \* the code-fence marker (three backquotes)

EmptyText == << <<>> >>

\* if response: -- None and the empty string are falsy
Truthy(resp) == resp.some /\ resp.value # EmptyText

\* line.startswith('<label>:')
StartsWith(line, label) ==
    /\ Len(line) >= 2
    /\ line[1] = label
    /\ line[2] = Colon

\* str.strip() on a line
RECURSIVE LStrip(_)
LStrip(s) == IF s # <<>> /\ Head(s) = Blank THEN LStrip(Tail(s)) ELSE s

RECURSIVE RStrip(_)
RStrip(s) ==
    IF s # <<>> /\ s[Len(s)] = Blank THEN RStrip(SubSeq(s, 1, Len(s) - 1)) ELSE s

Strip(s) == RStrip(LStrip(s))

HasColon(s) == \E i \in 1..Len(s) : s[i] = Colon

FirstColon(s) ==
    CHOOSE i \in 1..Len(s) : s[i] = Colon /\ \A j \in 1..(i - 1) : s[j] # Colon

\* line.split(':', 1)
SplitColon1(s) ==
    IF HasColon(s)
    THEN <<SubSeq(s, 1, FirstColon(s) - 1), SubSeq(s, FirstColon(s) + 1, Len(s))>>
    ELSE <<s>>

\* line.split(':')
RECURSIVE SplitColon(_)
SplitColon(s) ==
    IF HasColon(s)
    THEN <<SubSeq(s, 1, FirstColon(s) - 1)>>
         \o SplitColon(SubSeq(s, FirstColon(s) + 1, Len(s)))
    ELSE <<s>>

\* parts[1] (Python index): IndexError when the list has one element
Index1(parts) ==
    [ok |-> Len(parts) >= 2,
     value |-> IF Len(parts) >= 2 THEN parts[2] ELSE <<>>]

\* field = parts[1].strip(); an IndexError aborts the scan
Assign(s, field, part) ==
    IF part.ok THEN [s EXCEPT !.fields[field] = Strip(part.value)]
    ELSE [s EXCEPT !.raised = TRUE]

---------------------------------------------------------------------------
(* Triage: BedrockClient.classify_incident_priority (the same loop is in   *)
(* pages/5_AI_Features.py, lines 268-281)                                  *)

TriageDefaults ==
    [priority |-> <<"P3">>, reasoning |-> <<"Unable to determine">>]

TriageFailed_partial == [priority |-> <<"P3">>]
TriageFailed ==
    [priority |-> <<"P3">>, reasoning |-> <<"AI classification failed">>]

TriageExtract(resp) ==
    IF ~Truthy(resp) THEN [raised |-> FALSE, fields |-> TriageFailed]
    ELSE LET st[i \in 0..Len(resp.value)] ==
               IF i = 0 THEN [raised |-> FALSE, fields |-> TriageDefaults]
               ELSE LET s == st[i - 1]
                        line == resp.value[i]
                    IN IF s.raised THEN s
                       ELSE IF StartsWith(line, "Priority")
                       THEN Assign(s, "priority", Index1(SplitColon(line)))
                       ELSE IF StartsWith(line, "Reasoning")
                       THEN Assign(s, "reasoning", Index1(SplitColon1(line)))
                       ELSE s
         IN st[Len(resp.value)]

---------------------------------------------------------------------------
(* Agent matching: BedrockClient.recommend_agent_assignment *)

AgentDefaults ==
    [agent |-> <<"No recommendation">>,
     reasoning |-> <<"Unable to determine">>,
     confidence |-> <<"Low">>]

AgentFailed ==
    [agent |-> <<"No recommendation">>,
     reasoning |-> <<"AI assignment failed">>,
     confidence |-> <<"Low">>]

AgentExtract(resp) ==
    IF ~Truthy(resp) THEN [raised |-> FALSE, fields |-> AgentFailed]
    ELSE LET st[i \in 0..Len(resp.value)] ==
               IF i = 0 THEN [raised |-> FALSE, fields |-> AgentDefaults]
               ELSE LET s == st[i - 1]
                        line == resp.value[i]
                    IN IF s.raised THEN s
                       ELSE IF StartsWith(line, "Recommended Agent")
                       THEN Assign(s, "agent", Index1(SplitColon1(line)))
                       ELSE IF StartsWith(line, "Reasoning")
                       THEN Assign(s, "reasoning", Index1(SplitColon1(line)))
                       ELSE IF StartsWith(line, "Confidence")
                       THEN Assign(s, "confidence", Index1(SplitColon1(line)))
                       ELSE s
         IN st[Len(resp.value)]

---------------------------------------------------------------------------
(* KB generation: BedrockClient.generate_kb_article *)

KbSections ==
    [title |-> <<>>, problem |-> <<>>, solution |-> <<>>, tags |-> <<>>]

KbFailed ==
    [title |-> <<"Generated Article">>, problem |-> <<>>,
     solution |-> <<>>, tags |-> <<>>]

\* current_section after a label line: 'Title:' leaves it as it is,
\* 'Problem:' and 'Solution:' open their section, 'Tags:' sets None
KbCurrentAfter_solutionKeeps(label, current) ==
    IF label = "Problem" THEN "problem"
    ELSE IF label = "Tags" THEN None
    ELSE current
KbCurrentAfter(label, current) ==
    IF label = "Problem" THEN "problem"
    ELSE IF label = "Solution" THEN "solution"
    ELSE IF label = "Tags" THEN None
    ELSE current

KbLabelLine(s, line, label, field) ==
    [Assign(s, field, Index1(SplitColon1(line)))
        EXCEPT !.current = KbCurrentAfter(label, s.current)]

KbExtract(resp) ==
    IF ~Truthy(resp) THEN [raised |-> FALSE, fields |-> KbFailed, current |-> None]
    ELSE LET st[i \in 0..Len(resp.value)] ==
               IF i = 0
               THEN [raised |-> FALSE, fields |-> KbSections, current |-> None]
               ELSE LET s == st[i - 1]
                        line == resp.value[i]
                    IN IF s.raised THEN s
                       ELSE IF StartsWith(line, "Title")
                       THEN KbLabelLine(s, line, "Title", "title")
                       ELSE IF StartsWith(line, "Problem")
                       THEN KbLabelLine(s, line, "Problem", "problem")
                       ELSE IF StartsWith(line, "Solution")
                       THEN KbLabelLine(s, line, "Solution", "solution")
                       ELSE IF StartsWith(line, "Tags")
                       THEN KbLabelLine(s, line, "Tags", "tags")
                       ELSE IF s.current # None /\ Strip(line) # <<>>
                       THEN [s EXCEPT !.fields[s.current] = @ \o <<Blank>> \o Strip(line)]
                       ELSE s
         IN st[Len(resp.value)]

---------------------------------------------------------------------------
(* KB generation on the AI features page: pages/5_AI_Features.py 500-528 *)

KbPageSections ==
    [title |-> <<>>, problem |-> <<>>, root_cause |-> <<>>,
     solution |-> <<>>, prevention |-> <<>>, tags |-> <<>>]

KbPageFailed ==
    [title |-> <<"Generated Article">>, problem |-> <<>>, root_cause |-> <<>>,
     solution |-> <<>>, prevention |-> <<>>, tags |-> <<>>]

KbPageCurrentAfter(label, current) ==
    IF label = "Problem" THEN "problem"
    ELSE IF label = "Root Cause" THEN "root_cause"
    ELSE IF label = "Solution" THEN "solution"
    ELSE IF label = "Prevention" THEN "prevention"
    ELSE IF label = "Tags" THEN None
    ELSE current

KbPageLabelLine(s, line, label, field) ==
    [Assign(s, field, Index1(SplitColon1(line)))
        EXCEPT !.current = KbPageCurrentAfter(label, s.current)]

KbPageExtract(resp) ==
    IF ~Truthy(resp) THEN [raised |-> FALSE, fields |-> KbPageFailed, current |-> None]
    ELSE LET st[i \in 0..Len(resp.value)] ==
               IF i = 0
               THEN [raised |-> FALSE, fields |-> KbPageSections, current |-> None]
               ELSE LET s == st[i - 1]
                        line == Strip(resp.value[i])
                    IN IF s.raised THEN s
                       ELSE IF StartsWith(line, "Title")
                       THEN KbPageLabelLine(s, line, "Title", "title")
                       ELSE IF StartsWith(line, "Problem")
                       THEN KbPageLabelLine(s, line, "Problem", "problem")
                       ELSE IF StartsWith(line, "Root Cause")
                       THEN KbPageLabelLine(s, line, "Root Cause", "root_cause")
                       ELSE IF StartsWith(line, "Solution")
                       THEN KbPageLabelLine(s, line, "Solution", "solution")
                       ELSE IF StartsWith(line, "Prevention")
                       THEN KbPageLabelLine(s, line, "Prevention", "prevention")
                       ELSE IF StartsWith(line, "Tags")
                       THEN KbPageLabelLine(s, line, "Tags", "tags")
                       ELSE IF s.current # None /\ line # <<>>
                       THEN [s EXCEPT !.fields[s.current] = @ \o <<NL>> \o line]
                       ELSE s
         IN st[Len(resp.value)]

---------------------------------------------------------------------------
(* The three schemas (KB generation has two extractors) *)

Schemas == {"triage", "agent", "kb", "kbpage"}

\* labels of a schema, in the order of its prompt template
SchemaLabels(sch) ==
    IF sch = "triage"
    THEN <<[label |-> "Priority", field |-> "priority"],
           [label |-> "Reasoning", field |-> "reasoning"]>>
    ELSE IF sch = "agent"
    THEN <<[label |-> "Recommended Agent", field |-> "agent"],
           [label |-> "Reasoning", field |-> "reasoning"],
           [label |-> "Confidence", field |-> "confidence"]>>
    ELSE IF sch = "kb"
    THEN <<[label |-> "Title", field |-> "title"],
           [label |-> "Problem", field |-> "problem"],
           [label |-> "Solution", field |-> "solution"],
           [label |-> "Tags", field |-> "tags"]>>
    ELSE <<[label |-> "Title", field |-> "title"],
           [label |-> "Problem", field |-> "problem"],
           [label |-> "Root Cause", field |-> "root_cause"],
           [label |-> "Solution", field |-> "solution"],
           [label |-> "Prevention", field |-> "prevention"],
           [label |-> "Tags", field |-> "tags"]>>

Extract(sch, resp) ==
    IF sch = "triage" THEN TriageExtract(resp)
    ELSE IF sch = "agent" THEN AgentExtract(resp)
    ELSE IF sch = "kb" THEN KbExtract(resp)
    ELSE KbPageExtract(resp)

---------------------------------------------------------------------------
(* Responses *)

\* inline values: a word, and a value that itself contains a colon
InlineValues == {<<"a">>, <<"a", Colon, Blank, "b">>}

\* lines a model may produce for a schema: its label lines, an indented
\* label line, prose that mentions a label word, an empty line, a fence
LinePool(sch) ==
    LET ls == SchemaLabels(sch)
    IN { <<ls[k].label, Colon, Blank>> \o v : k \in 1..Len(ls), v \in InlineValues }
       \cup { <<Blank, ls[1].label, Colon, Blank, "a">>,
              <<ls[1].label, Blank, "x">>,
              <<>>,
              <<Fence>> }

\* invoke_model returns response_text.strip()
IsStripped(resp) ==
    /\ resp[1] # <<>> /\ resp[1][1] # Blank
    /\ resp[Len(resp)] # <<>>
    /\ resp[Len(resp)][Len(resp[Len(resp)])] # Blank

FreeTexts(sch) ==
    { t \in UNION { [1..n -> LinePool(sch)] : n \in 1..MaxLines } : IsStripped(t) }

\* value lines of the multi-line field of a hand-built record
ValueLines == {<<"a">>, <<"b", Blank, "c">>, <<"d", Colon, "e">>}

\* a record of a KB schema: every field one inline value, one middle field
\* (neither the first nor the last) with MaxValueLines lines
Records(sch) ==
    LET ls == SchemaLabels(sch)
        flds == {ls[k].field : k \in 1..Len(ls)}
        middle == {ls[k].field : k \in 2..(Len(ls) - 1)}
        multi == UNION { [1..n -> ValueLines] : n \in 2..MaxValueLines }
    IN { [f \in flds |-> IF f = x[1] THEN x[2] ELSE <<x[3][f]>>] :
            x \in middle \X multi \X [flds -> InlineValues] }

\* 'Label: first line' followed by the remaining lines of the value, for
\* every field in schema order
Serialize(sch, rec) ==
    LET ls == SchemaLabels(sch)
        acc[k \in 0..Len(ls)] ==
           IF k = 0 THEN <<>>
           ELSE acc[k - 1]
                \o << <<ls[k].label, Colon, Blank>> \o rec[ls[k].field][1] >>
                \o Tail(rec[ls[k].field])
    IN acc[Len(ls)]

FenceLines == { <<Fence>>, <<Fence, "json">> }

Wrap(resp, open) == Some(<<open>> \o resp.value \o << <<Fence>> >>)

---------------------------------------------------------------------------
(* Extraction scenario: a response arrives, is extracted, and the same     *)
(* response wrapped in code fences is extracted                            *)

InitExtract ==
    /\ phase = "text"
    /\ raw = EmptyFrame
    /\ categories = NoFile
    /\ services = NoFile
    /\ df = EmptyFrame
    /\ prev = EmptyFrame
    /\ raised = FALSE
    /\ result = Nothing
    /\ fenced = Nothing
    /\ CallsIdle
    /\ schema \in Schemas
    /\ \/ /\ record = Nothing
          /\ response \in {Some(t) : t \in FreeTexts(schema) \cup {EmptyText}} \cup {Nothing}
       \/ /\ schema \in {"kb", "kbpage"}
          /\ \E r \in Records(schema) :
                /\ record = Some(r)
                /\ response = Some(Serialize(schema, r))

ExtractResponse ==
    /\ phase = "text"
    /\ LET o == Extract(schema, response)
       IN /\ raised' = o.raised
          /\ result' = IF o.raised THEN Nothing ELSE Some(o.fields)
    /\ phase' = "extracted"
    /\ UNCHANGED <<raw, categories, services, df, prev, schema, response, record, fenced,
                 batch, proc, gen, store, inv, view, sess>>

ExtractFenced ==
    /\ phase = "extracted"
    /\ Truthy(response)
    /\ \E open \in FenceLines :
          LET o == Extract(schema, Wrap(response, open))
          IN /\ raised' = o.raised
             /\ fenced' = IF o.raised THEN Nothing ELSE Some(o.fields)
    /\ phase' = "fenced"
    /\ UNCHANGED <<raw, categories, services, df, prev, schema, response, record, result,
                 batch, proc, gen, store, inv, view, sess>>

NextExtract == ExtractResponse \/ ExtractFenced

SpecExtract == InitExtract /\ [][NextExtract]_vars


---------------------------------------------------------------------------
(* Properties of label-based extraction *)

FieldsOf(sch) == {SchemaLabels(sch)[k].field : k \in 1..Len(SchemaLabels(sch))}

LabelOf(sch, f) ==
    SchemaLabels(sch)[CHOOSE k \in 1..Len(SchemaLabels(sch)) :
                         SchemaLabels(sch)[k].field = f].label

\* the line as the schema's extractor tests it
SeenLine(sch, line) == IF sch = "kbpage" THEN Strip(line) ELSE line

LinesWith(sch, resp, label) ==
    {i \in 1..Len(resp.value) : StartsWith(SeenLine(sch, resp.value[i]), label)}

IsLabelLine(sch, line) ==
    \E k \in 1..Len(SchemaLabels(sch)) :
       StartsWith(SeenLine(sch, line), SchemaLabels(sch)[k].label)

\* the documented default of a field: the failure record when there is no
\* response, the initial value otherwise
ExpectedDefault(sch, f, answered) ==
    IF sch = "triage"
    THEN IF f = "priority" THEN <<"P3">>
         ELSE IF answered THEN <<"Unable to determine">>
         ELSE <<"AI classification failed">>
    ELSE IF sch = "agent"
    THEN IF f = "agent" THEN <<"No recommendation">>
         ELSE IF f = "confidence" THEN <<"Low">>
         ELSE IF answered THEN <<"Unable to determine">>
         ELSE <<"AI assignment failed">>
    ELSE IF f = "title" /\ ~answered THEN <<"Generated Article">>
         ELSE <<>>

\* C6: label-based extraction never raises and returns a record with every
\* declared field of its schema; a field whose label is on no line of the
\* response (or when there is no response) holds its default.
C6_EveryFieldPresent ==
    phase = "extracted" =>
       /\ ~raised
       /\ result.some
       /\ DOMAIN result.value = FieldsOf(schema)
       /\ \A f \in FieldsOf(schema) :
             (~Truthy(response) \/ LinesWith(schema, response, LabelOf(schema, f)) = {}) =>
                result.value[f] = ExpectedDefault(schema, f, Truthy(response))

C6_Witness ==
    /\ phase = "extracted"
    /\ schema = "triage"
    /\ ~Truthy(response)
    /\ response.some
    /\ result.some
    /\ result.value["priority"] = <<"P3">>
    /\ result.value["reasoning"] = <<"AI classification failed">>

\* C7 (as claimed): on a label line of a triage response the extracted
\* field is the whole text after the label's colon, trimmed, for Priority
\* and for Reasoning, also when that text contains colons.
C7_WholeTextAfterColon ==
    (phase = "extracted" /\ schema = "triage" /\ Truthy(response) /\ result.some) =>
       \A f \in {"priority", "reasoning"} :
          \A i \in LinesWith(schema, response, LabelOf(schema, f)) :
             Cardinality(LinesWith(schema, response, LabelOf(schema, f))) = 1 =>
                result.value[f] =
                   Strip(SubSeq(response.value[i], 3, Len(response.value[i])))

IsWord(t) == t \notin {Blank, NL}

\* a value up to incidental whitespace
Normalize(v) == SelectSeq(v, IsWord)

\* the value the documented scan gives a field: the inline value of its
\* last label line, followed by every later line up to the next label line
ExpectedField(sch, resp, f) ==
    LET lines == resp.value
        hits == LinesWith(sch, resp, LabelOf(sch, f))
        k == CHOOSE i \in hits : \A h \in hits : h <= i
        stops == {j \in (k + 1)..Len(lines) : IsLabelLine(sch, lines[j])} \cup {Len(lines) + 1}
        stop == CHOOSE j \in stops : \A h \in stops : j <= h
        cont[j \in k..(stop - 1)] ==
           IF j = k
           THEN LET l == SeenLine(sch, lines[k]) IN SubSeq(l, 3, Len(l))
           ELSE cont[j - 1] \o lines[j]
    IN cont[stop - 1]

\* fields C8 speaks about: every KB section, and the reasoning of triage
ContinuedFields(sch) == IF sch = "triage" THEN {"reasoning"} ELSE FieldsOf(sch)

\* C8 (as claimed): every non-empty line that starts with no known label
\* is appended to the field of the most recent label line and to no other
\* field, and a new label line closes the previous field.
C8_ContinuationLines ==
    (phase = "extracted" /\ schema \in {"triage", "kb", "kbpage"}
        /\ Truthy(response) /\ result.some) =>
       \A f \in ContinuedFields(schema) :
          LinesWith(schema, response, LabelOf(schema, f)) # {} =>
             Normalize(result.value[f]) = Normalize(ExpectedField(schema, response, f))

Flatten(ls) ==
    LET acc[k \in 0..Len(ls)] == IF k = 0 THEN <<>> ELSE acc[k - 1] \o ls[k]
    IN acc[Len(ls)]

C10_FenceInsensitive ==
    phase = "fenced" => fenced = result

---------------------------------------------------------------------------
(* Scenarios that do not touch the frames or the label extractors *)

FramesIdle ==
    /\ raw = EmptyFrame
    /\ categories = NoFile
    /\ services = NoFile
    /\ df = EmptyFrame
    /\ prev = EmptyFrame

TextIdle ==
    /\ schema = None
    /\ response = Nothing
    /\ record = Nothing
    /\ result = Nothing
    /\ fenced = Nothing

frameVars == <<raw, categories, services, df, prev>>
textVars == <<schema, response, record, result, fenced>>

---------------------------------------------------------------------------
(* Bounds of the generation scenarios *)

MaxIndex == 1       \* largest position of an object in its batch
MaxItems == 2       \* elements of a JSON array returned by the model

---------------------------------------------------------------------------
(* DataIngestManager._process_ai_incident                                  *)
(*                                                                         *)
(* A JSON value is a record [ty, ...].  A string is the sequence of its    *)
(* pieces (prefix, digits, words), so that startswith and the digit width  *)
(* of an identifier can be read off; "" is the empty sequence.  Of the     *)
(* twenty keys of the output record the model keeps those the code reads   *)
(* after building it; the others are copied with a default and never       *)
(* looked at again.                                                        *)

Absent == [ty |-> "absent", s |-> <<>>]      \* the key is not in the object
JNull == [ty |-> "null", s |-> <<>>]
JNumber == [ty |-> "number", s |-> <<"7">>]
Str(s) == [ty |-> "str", s |-> s]
Word(w) == Str(<<w>>)
EmptyStr == Str(<<>>)
Dict(d) == [ty |-> "dict", d |-> d]

\* not value -- None and '' are falsy, a non-zero number is not
Falsy(v) == v = JNull \/ v = EmptyStr

\* incident_data.get(key, default)
Get(d, key, default) == IF d[key] = Absent THEN default ELSE d[key]

DigitChars == <<"0", "1", "2", "3", "4", "5", "6", "7", "8", "9">>

\* the decimal digits of n, most significant first
RECURSIVE Digits(_)
Digits(n) ==
    IF n < 10 THEN <<DigitChars[n + 1]>>
    ELSE Append(Digits(n \div 10), DigitChars[(n % 10) + 1])

\* format spec 0<w>d: zero-padded to at least w digits, never truncated
RECURSIVE ZeroPad(_, _)
ZeroPad(ds, w) == IF Len(ds) >= w THEN ds ELSE ZeroPad(<<"0">> \o ds, w)

\* f'INC{base_id:04d}' with
\* base_id = 1000 + (int(datetime.utcnow().timestamp()) % 10000) + index
SyntheticId(clock, index) ==
    Str(<<"INC">> \o ZeroPad(Digits(1000 + (clock % 10000) + index), 4))

\* incident_id.startswith('INC')
StartsWithINC(v) == v.s # <<>> /\ v.s[1] = "INC"

\* f'AGT{random.randint(1, 10):03d}'
AgentId(n) == Str(<<"AGT">> \o ZeroPad(Digits(n), 3))

ResolutionCodes == {"Fixed", "Workaround", "User Error", "Duplicate"}
UnresolvedStatuses == {"Open", "In Progress", "Assigned"}

\* what the random module returns during one call
Draws ==
    [code : ResolutionCodes, status : UnresolvedStatuses,
     unassign : BOOLEAN, agent : 1..10]

\* record = {...}: the keys of the object with their defaults
BuildRecord(d, incident_id) ==
    [incident_id |-> incident_id,
     title |-> Get(d, "title", Word("IT Support Request")),
     priority |-> Get(d, "priority", Word("P3")),
     status |-> Get(d, "status", Word("Open")),
     assigned_to |-> Get(d, "assigned_to", EmptyStr),
     resolution_code |-> Get(d, "resolution_code", EmptyStr),
     resolved_on |-> Get(d, "resolved_on", EmptyStr),
     resolution_notes |-> Get(d, "resolution_notes", EmptyStr),
     source |-> "ai_generated"]

ResolvedFixup_noDate(rec, draw) ==
    [rec EXCEPT
        !.resolution_code = IF Falsy(@) THEN Word(draw.code) ELSE @,
        !.resolution_notes = IF Falsy(@) THEN Word("Issue resolved successfully") ELSE @,
        !.assigned_to = IF Falsy(@) THEN AgentId(draw.agent) ELSE @,
        !.status = Word("Resolved")]

\* if status_type == 'resolved':
ResolvedFixup(rec, draw) ==
    [rec EXCEPT
        !.resolution_code = IF Falsy(@) THEN Word(draw.code) ELSE @,
        !.resolved_on = IF Falsy(@) THEN Word("<past datetime>") ELSE @,
        !.resolution_notes = IF Falsy(@) THEN Word("Issue resolved successfully") ELSE @,
        !.assigned_to = IF Falsy(@) THEN AgentId(draw.agent) ELSE @,
        !.status = Word("Resolved")]

UnresolvedFixup_keepsNotes(rec, draw) ==
    [rec EXCEPT
        !.resolution_code = EmptyStr,
        !.resolved_on = EmptyStr,
        !.status = IF @ \in {Word(x) : x \in UnresolvedStatuses}
                   THEN @ ELSE Word(draw.status),
        !.assigned_to = IF draw.unassign THEN EmptyStr
                        ELSE IF Falsy(@) THEN AgentId(draw.agent) ELSE @]

\* else: unresolved incidents
UnresolvedFixup(rec, draw) ==
    [rec EXCEPT
        !.resolution_code = EmptyStr,
        !.resolved_on = EmptyStr,
        !.resolution_notes = EmptyStr,
        !.status = IF @ \in {Word(x) : x \in UnresolvedStatuses}
                   THEN @ ELSE Word(draw.status),
        !.assigned_to = IF draw.unassign THEN EmptyStr
                        ELSE IF Falsy(@) THEN AgentId(draw.agent) ELSE @]

\* _process_ai_incident(incident_data, index, status_type): the record, or
\* Nothing where the except branch returns None (.get on a value that is
\* not an object, .startswith on an identifier that is not a string)
ProcessAiIncident(incident, index, status_type, clock, draw) ==
    IF incident.ty # "dict" THEN Nothing
    ELSE LET incident_id == Get(incident.d, "incident_id", SyntheticId(clock, index))
         IN IF incident_id.ty # "str" THEN Nothing
            ELSE LET id == IF StartsWithINC(incident_id) THEN incident_id
                           ELSE SyntheticId(clock, index)
                     rec == BuildRecord(incident.d, id)
                 IN Some(IF status_type = "resolved"
                         THEN ResolvedFixup(rec, draw)
                         ELSE UnresolvedFixup(rec, draw))

\* every record one call can return, over the random draws
Outcomes(incident, index, status_type, clock) ==
    { ProcessAiIncident(incident, index, status_type, clock, d) : d \in Draws }

StatusTypes == {"resolved", "unresolved"}

\* seconds since the epoch at the time of the call
Clocks == {1700000000, 1700008998, 1700009999}

\* identifiers a model may put in an object
ModelIds ==
    { Absent, JNull, JNumber, EmptyStr,
      Str(<<"INC", "0", "0", "4", "2">>),      \* well formed
      Str(<<"INC", "4", "2">>),                \* wrong width
      Str(<<"INC", "-", "A", "B">>),           \* non-digit suffix
      Str(<<"TKT", "0", "0", "4", "2">>) }     \* wrong prefix

GoodId == Str(<<"INC", "0", "0", "4", "2">>)

\* objects a model may return: every identifier with the other keys
\* missing, and every combination of the other keys under a good identifier
ModelObjects ==
    { Dict([incident_id |-> i, title |-> Absent, priority |-> Absent,
            status |-> Absent, assigned_to |-> Absent,
            resolution_code |-> Absent, resolved_on |-> Absent,
            resolution_notes |-> Absent]) : i \in ModelIds }
    \cup
    { Dict([incident_id |-> GoodId, title |-> Word("VPN down"),
            priority |-> Absent, status |-> st, assigned_to |-> a,
            resolution_code |-> c, resolved_on |-> o,
            resolution_notes |-> n]) :
        st \in { Absent, JNull, Word("Open"), Word("In Progress"),
                 Word("Resolved"), Word("Closed") },
        a \in { Absent, EmptyStr, AgentId(5) },
        c \in { Absent, EmptyStr, Word("Fixed"), Word("Solved") },
        o \in { EmptyStr, Word("2024-05-01 10:00:00") },
        n \in { EmptyStr, Word("rebooted") } }

InitProcess ==
    /\ phase = "process"
    /\ FramesIdle
    /\ TextIdle
    /\ raised = FALSE
    /\ batch = Idle /\ gen = Idle /\ store = Idle /\ inv = Idle /\ view = Idle /\ sess = Idle
    /\ \E o \in ModelObjects \cup {JNumber}, i \in 0..MaxIndex, t \in StatusTypes, c \in Clocks :
          proc = [pc |-> "ready", incident |-> o, index |-> i,
                  status_type |-> t, clock |-> c, out |-> Nothing]

\* one call of _process_ai_incident
Process ==
    /\ phase = "process"
    /\ proc.pc = "ready"
    /\ \E r \in Outcomes(proc.incident, proc.index, proc.status_type, proc.clock) :
          proc' = [proc EXCEPT !.pc = "done", !.out = r]
    /\ UNCHANGED <<phase, raised, frameVars, textVars, batch, gen, store, inv, view, sess>>

NextProcess == Process

SpecProcess == InitProcess /\ [][NextProcess]_vars

---------------------------------------------------------------------------
(* DataIngestManager._generate_ai_batch: fence cleaning and JSON parsing   *)
(*                                                                         *)
(* The response is the sequence of its tokens: the fence marker, the word  *)
(* json, blanks and newlines, the JSON punctuation, and value tokens, each *)
(* standing for the text of one JSON value that is not an array.           *)

RECURSIVE LTrim(_)
LTrim(s) == IF s # <<>> /\ Head(s) \in {Blank, NL} THEN LTrim(Tail(s)) ELSE s

RECURSIVE RTrim(_)
RTrim(s) ==
    IF s # <<>> /\ s[Len(s)] \in {Blank, NL} THEN RTrim(SubSeq(s, 1, Len(s) - 1)) ELSE s

\* response.strip()
Trim(s) == RTrim(LTrim(s))

\* if cleaned_response.startswith(open): re.sub('^' + open + '\s*', '', ...)
DropOpening(s, open) ==
    IF Len(s) >= Len(open) /\ SubSeq(s, 1, Len(open)) = open
    THEN LTrim(SubSeq(s, Len(open) + 1, Len(s)))
    ELSE s

DropClosing_never(s) == s

\* if cleaned_response.endswith(fence): re.sub('\s*' + fence + '$', '', ...)
DropClosing(s) ==
    IF s # <<>> /\ s[Len(s)] = Fence THEN RTrim(SubSeq(s, 1, Len(s) - 1)) ELSE s

\* cleaned_response, after the three substitutions
CleanedResponse(text) ==
    DropClosing(DropOpening(DropOpening(Trim(text), <<Fence, "json">>), <<Fence>>))

\* an object with every key the generation prompt asks for
FullObject ==
    Dict([incident_id |-> GoodId, title |-> Word("VPN down"),
          priority |-> Word("P2"), status |-> Word("Open"),
          assigned_to |-> AgentId(5), resolution_code |-> Word("Fixed"),
          resolved_on |-> Word("2024-05-01 10:00:00"),
          resolution_notes |-> Word("rebooted")])

\* the JSON value a value token is the text of: the full object, the
\* same with a null identifier, a number
TokenValue(t) ==
    CASE t = "{full}" -> FullObject
      [] t = "{nullid}" -> Dict([FullObject.d EXCEPT !.incident_id = JNull])
      [] t = "7" -> JNumber

ValueTokens == {"{full}", "{nullid}", "7"}

JList(items) == [ty |-> "list", items |-> items]

ParseError == [ok |-> FALSE]

SkipSpace(s, i) == i + (Len(s) - i + 1 - Len(LTrim(SubSeq(s, i, Len(s)))))

\* json.loads on the tokens from position i on: one value, arrays nested
RECURSIVE ParseValue(_, _)
RECURSIVE ParseElements(_, _, _)
ParseValue(s, i) ==
    IF i > Len(s) THEN ParseError
    ELSE IF s[i] \in ValueTokens
         THEN [ok |-> TRUE, value |-> TokenValue(s[i]), next |-> i + 1]
    ELSE IF s[i] = "["
         THEN LET j == SkipSpace(s, i + 1)
              IN IF j <= Len(s) /\ s[j] = "]"
                 THEN [ok |-> TRUE, value |-> JList(<<>>), next |-> j + 1]
                 ELSE ParseElements(s, j, <<>>)
    ELSE ParseError

\* the elements of an array from position i on, acc those already read
ParseElements(s, i, acc) ==
    LET v == ParseValue(s, i)
    IN IF ~v.ok THEN ParseError
       ELSE LET j == SkipSpace(s, v.next)
            IN IF j > Len(s) THEN ParseError
               ELSE IF s[j] = "]"
                    THEN [ok |-> TRUE, value |-> JList(Append(acc, v.value)),
                          next |-> j + 1]
               ELSE IF s[j] = ","
                    THEN ParseElements(s, SkipSpace(s, j + 1), Append(acc, v.value))
               ELSE ParseError

JsonLoads_lenient(text) ==
    LET v == ParseValue(text, SkipSpace(text, 1))
    IN IF v.ok /\ SkipSpace(text, v.next) > Len(text) THEN v
       ELSE [ok |-> TRUE, value |-> JList(<<>>), next |-> Len(text) + 1]

\* json.loads(text): the value, or ParseError for json.JSONDecodeError
JsonLoads(text) ==
    LET v == ParseValue(text, SkipSpace(text, 1))
    IN IF v.ok /\ SkipSpace(text, v.next) > Len(text) THEN v ELSE ParseError

\* the loop over incidents_data: the lists of processed records it can
\* build, records that came back None left out
ProcessedLists(items, status_type, clock) ==
    LET upto[k \in 0..Len(items)] ==
            IF k = 0 THEN {<<>>}
            ELSE { IF r.some THEN Append(acc, r.value) ELSE acc :
                     acc \in upto[k - 1],
                     r \in Outcomes(items[k], k - 1, status_type, clock) }
    IN upto[Len(items)]

BatchRaised == [raised |-> TRUE, parsed |-> Nothing, records |-> <<>>]

\* _generate_ai_batch given what invoke_model returned: the outcomes it can
\* have -- it raises, or returns the processed records of the parsed array
GenerateAiBatch(resp, status_type, clock) ==
    IF ~resp.some \/ resp.value = <<>> THEN {BatchRaised}
    ELSE LET incidents_data == JsonLoads(CleanedResponse(resp.value))
         IN IF ~incidents_data.ok THEN {BatchRaised}
            ELSE IF incidents_data.value.ty # "list" THEN {BatchRaised}
            ELSE { [raised |-> FALSE, parsed |-> Some(incidents_data.value.items),
                    records |-> rs] :
                     rs \in ProcessedLists(incidents_data.value.items,
                                           status_type, clock) }

\* a JSON array of the given value tokens, one element per line
ArrayText(toks) ==
    LET upto[k \in 0..Len(toks)] ==
            IF k = 0 THEN <<"[">>
            ELSE upto[k - 1] \o (IF k = 1 THEN <<NL>> ELSE <<",", NL>>) \o <<toks[k]>>
    IN upto[Len(toks)] \o (IF toks = <<>> THEN <<>> ELSE <<NL>>) \o <<"]">>

\* well-formed arrays
ArrayBodies == { ArrayText(ts) : ts \in UNION { [1..n -> ValueTokens] : n \in 0..MaxItems } }

\* JSON that is not an array
NonListBodies == { <<"{full}">>, <<"7">>, <<NL, "{nullid}", Blank>> }

\* text that is not JSON: unterminated array, trailing comma, missing
\* comma, text after the value, prose before it, whitespace only
InvalidBodies ==
    { <<"[", "{full}">>, <<"[", "{full}", ",", "]">>, <<"[", "{full}", "{full}", "]">>,
      <<"[", "]", "]">>, <<"json", Blank, "[", "]">>, <<"]">>, <<Blank>> }

\* the bodies checked: arrays, arrays nested and padded with whitespace,
\* other JSON, invalid text, and bodies with a fence marker of their own
BatchBodies ==
    ArrayBodies \cup NonListBodies \cup InvalidBodies
    \cup { <<"[", "[", "{full}", "]", ",", Blank, "[", "]", "]">>,
           <<NL, "[", "{full}", "]", Blank>>,
           <<"[", "{full}", "]", NL, Fence>>, <<Fence, NL, "[", "]">>,
           <<Fence, "json", NL, "[", "{full}", "]", NL, Fence>>, <<Fence>> }

\* the body as a fenced block: opening line, body, closing line
WrapBody(text, open) == open \o <<NL>> \o text \o <<NL, Fence>>

InitBatch ==
    /\ phase = "batch"
    /\ FramesIdle
    /\ TextIdle
    /\ raised = FALSE
    /\ proc = Idle /\ gen = Idle /\ store = Idle /\ inv = Idle /\ view = Idle /\ sess = Idle
    /\ \E r \in {Nothing, Some(<<>>)} \cup {Some(b) : b \in BatchBodies},
          t \in StatusTypes, c \in Clocks :
          batch = [pc |-> "ready", response |-> r, status_type |-> t, clock |-> c,
                   out |-> BatchRaised, fencedOut |-> BatchRaised]

\* _generate_ai_batch on the response
GenerateBatch ==
    /\ phase = "batch"
    /\ batch.pc = "ready"
    /\ \E o \in GenerateAiBatch(batch.response, batch.status_type, batch.clock) :
          batch' = [batch EXCEPT !.pc = "returned", !.out = o]
    /\ UNCHANGED <<phase, raised, frameVars, textVars, proc, gen, store, inv, view, sess>>

\* _generate_ai_batch on the same body as a fenced block
GenerateBatchFenced ==
    /\ phase = "batch"
    /\ batch.pc = "returned"
    /\ batch.response.some
    /\ \E open \in { <<Fence, "json">>, <<Fence>> } :
         \E o \in GenerateAiBatch(Some(WrapBody(batch.response.value, open)),
                                  batch.status_type, batch.clock) :
            batch' = [batch EXCEPT !.pc = "fenced", !.fencedOut = o]
    /\ UNCHANGED <<phase, raised, frameVars, textVars, proc, gen, store, inv, view, sess>>

NextBatch == GenerateBatch \/ GenerateBatchFenced

SpecBatch == InitBatch /\ [][NextBatch]_vars

---------------------------------------------------------------------------
(* Properties of JSON-array extraction *)

SameParse(a, b) == a.raised = b.raised /\ a.parsed = b.parsed

\* the stripped body begins or ends with a fence marker of its own
HasOwnFence(text) ==
    LET t == Trim(text)
    IN t # <<>> /\ (t[1] = Fence \/ t[Len(t)] = Fence)

\* C11 as claimed: for every response body, _generate_ai_batch gives the
\* same result (the parsed list, or a failure) for the body wrapped in a
\* fenced block as for the body itself.
C11_FenceInsensitive ==
    batch.pc = "fenced" => SameParse(batch.fencedOut, batch.out)

\* C11 amended: the same, for every body that, once stripped, neither
\* begins nor ends with a fence marker of its own.
C11_FenceInsensitiveBody ==
    (batch.pc = "fenced" /\ ~HasOwnFence(batch.response.value))
        => SameParse(batch.fencedOut, batch.out)

C11_Witness ==
    /\ batch.pc = "fenced"
    /\ ~HasOwnFence(batch.response.value)
    /\ ~batch.out.raised
    /\ batch.out.parsed.value # <<>>
    /\ SameParse(batch.fencedOut, batch.out)

\* C12: when the response is empty, or its fence-stripped text is not valid
\* JSON, or it parses to a value that is not a list, _generate_ai_batch
\* raises and returns no incident list.
C12_HardFailure ==
    (batch.pc = "returned"
        /\ (~batch.response.some
            \/ batch.response.value \in {<<>>} \cup InvalidBodies \cup NonListBodies))
        => (batch.out.raised /\ ~batch.out.parsed.some /\ batch.out.records = <<>>)

C12_Witness ==
    /\ batch.pc = "returned"
    /\ batch.response = Some(<<"[", "{full}", ",", "]">>)
    /\ batch.out.raised

---------------------------------------------------------------------------
(* DataIngestManager.generate_ai_incidents and ingest_incidents_data       *)
(*                                                                         *)
(* A call is a sequence of steps: the model calls of the batches, then the *)
(* store operations one by one, each of which pymongo may fail.            *)

MaxCalls == 2       \* calls made one after the other

BatchSize == 10

\* n copies of x
Repeat(x, n) == [i \in 1..n |-> x]

\* batches = (count + batch_size - 1) // batch_size
BatchesFor(count) == (count + BatchSize - 1) \div BatchSize

\* resolved_count = int(count * resolved_percentage), the percentage in
\* hundredths; unresolved_count = count - resolved_count
ResolvedCount(count, pct) == (count * pct) \div 100

\* the batches of one call in the order they are requested
BatchPlan(count, pct) ==
    Repeat("resolved", BatchesFor(ResolvedCount(count, pct)))
        \o Repeat("unresolved", BatchesFor(count - ResolvedCount(count, pct)))

\* what invoke_model may return for a batch
GenResponses ==
    { Nothing,
      Some(<<"[", "]">>),
      Some(<<"[", "{full}">>),
      Some(<<"{full}">>),
      Some(<<"[", "7", "]">>),
      Some(<<"[", NL, "{full}", NL, "]">>),
      Some(<<Fence, "json", NL, "[", NL, "{full}", NL, "]", NL, Fence>>) }

\* documents already stored
OldIncident ==
    [BuildRecord(FullObject.d, Str(<<"INC", "9", "0", "0", "1">>))
        EXCEPT !.source = "incidents.csv"]

\* records of a CSV after cleaning, _source added
CsvRecord ==
    [BuildRecord(FullObject.d, Str(<<"INC", "0", "0", "0", "1">>))
        EXCEPT !.source = "new.csv"]

NoMetadata == [record_count |-> 0, source_file |-> ""]

\* the call returns ret; cause records why, for the properties only
Returned(g, ret, cause) ==
    [g EXCEPT !.pc = "returned", !.ret = ret, !.cause = cause,
              !.log = Append(@, [op |-> g.op, cause |-> cause, ret |-> ret])]

NewCall(op) ==
    [gen EXCEPT !.pc = "called", !.op = op, !.queue = <<>>, !.all = <<>>,
                !.parsed = <<>>, !.ret = FALSE, !.cause = "",
                !.before = [incidents |-> store.incidents, workload |-> store.workload]]

InitGenerate ==
    /\ phase = "generate"
    /\ FramesIdle
    /\ TextIdle
    /\ raised = FALSE
    /\ batch = Idle /\ proc = Idle /\ inv = Idle /\ view = Idle /\ sess = Idle
    /\ \E a \in BOOLEAN, i \in {<<>>, <<OldIncident>>}, w \in {<<>>, <<[incident_id |-> OldIncident.incident_id,
                                source |-> "workload.csv"]>>} :
          store = [available |-> a, incidents |-> i, agents |-> <<>>,
                   workload |-> w, metadata |-> NoMetadata]
    /\ \E b \in BOOLEAN :
          gen = [pc |-> "idle", op |-> "", bedrock |-> b, queue |-> <<>>,
                 all |-> <<>>, parsed |-> <<>>, ret |-> FALSE, cause |-> "",
                 before |-> [incidents |-> <<>>, workload |-> <<>>],
                 log |-> <<>>]

\* generate_ai_incidents(count, resolved_percentage) up to its first batch
CallGenerate ==
    /\ phase = "generate"
    /\ gen.pc \in {"idle", "returned"}
    /\ Len(gen.log) < MaxCalls
    /\ \E count \in {0, 1, 20}, pct \in {0, 50, 100} :
          LET g == NewCall("generate")
          IN gen' = IF ~store.available THEN Returned(g, FALSE, "store unavailable")
                    ELSE IF ~gen.bedrock THEN Returned(g, FALSE, "model unavailable")
                    ELSE [g EXCEPT !.pc = "batches", !.queue = BatchPlan(count, pct)]
    /\ UNCHANGED <<phase, raised, frameVars, textVars, batch, proc, store, inv, view, sess>>

GenBatch_storing ==
    /\ phase = "generate"
    /\ gen.pc = "batches"
    /\ gen.queue # <<>>
    /\ \E resp \in GenResponses, c \in Clocks :
         \E o \in GenerateAiBatch(resp, Head(gen.queue), c) :
            /\ gen' = IF o.raised
                      THEN Returned(gen, FALSE,
                                    IF ~resp.some THEN "no response" ELSE "malformed output")
                      ELSE [gen EXCEPT !.queue = Tail(@),
                                       !.all = @ \o o.records,
                                       !.parsed = Append(@, o.parsed.value)]
            /\ store' = [store EXCEPT !.incidents = @ \o o.records]
    /\ UNCHANGED <<phase, raised, frameVars, textVars, batch, proc, inv, view, sess>>

\* one _generate_ai_batch call of _generate_ai_incidents_batch; a batch
\* that raises ends the call in the except branch
GenBatch ==
    /\ phase = "generate"
    /\ gen.pc = "batches"
    /\ gen.queue # <<>>
    /\ \E resp \in GenResponses, c \in Clocks :
         \E o \in GenerateAiBatch(resp, Head(gen.queue), c) :
            gen' = IF o.raised
                   THEN Returned(gen, FALSE,
                                 IF ~resp.some THEN "no response" ELSE "malformed output")
                   ELSE [gen EXCEPT !.queue = Tail(@),
                                    !.all = @ \o o.records,
                                    !.parsed = Append(@, o.parsed.value)]
    /\ UNCHANGED <<phase, raised, frameVars, textVars, batch, proc, store, inv, view, sess>>

\* ingest_incidents_data(csv_path) up to its first store operation
CallIngest ==
    /\ phase = "generate"
    /\ gen.pc \in {"idle", "returned"}
    /\ Len(gen.log) < MaxCalls
    /\ \E readable \in BOOLEAN, records \in { <<>>, <<CsvRecord>> } :
          LET g == NewCall("ingest")
          IN gen' = IF ~store.available THEN Returned(g, FALSE, "store unavailable")
                    ELSE IF ~readable THEN Returned(g, FALSE, "csv error")
                    ELSE [g EXCEPT !.pc = "clear_incidents", !.all = records]
    /\ UNCHANGED <<phase, raised, frameVars, textVars, batch, proc, store, inv, view, sess>>

\* self.incidents_collection.delete_many({})
ClearIncidents ==
    /\ phase = "generate"
    /\ \/ gen.pc = "batches" /\ gen.queue = <<>>
       \/ gen.pc = "clear_incidents"
    /\ \/ /\ store' = [store EXCEPT !.incidents = <<>>]
          /\ gen' = [gen EXCEPT !.pc = IF gen.op = "generate" THEN "clear_workload"
                                       ELSE "insert"]
       \/ /\ gen' = Returned(gen, FALSE, "store error")
          /\ UNCHANGED store
    /\ UNCHANGED <<phase, raised, frameVars, textVars, batch, proc, inv, view, sess>>

ClearWorkload_skipped ==
    /\ phase = "generate"
    /\ gen.pc = "clear_workload"
    /\ \/ /\ gen' = [gen EXCEPT !.pc = "insert"]
          /\ UNCHANGED store
       \/ /\ gen' = Returned(gen, FALSE, "store error")
          /\ UNCHANGED store
    /\ UNCHANGED <<phase, raised, frameVars, textVars, batch, proc, inv, view, sess>>

\* self.workload_collection.delete_many({})
ClearWorkload ==
    /\ phase = "generate"
    /\ gen.pc = "clear_workload"
    /\ \/ /\ store' = [store EXCEPT !.workload = <<>>]
          /\ gen' = [gen EXCEPT !.pc = "insert"]
       \/ /\ gen' = Returned(gen, FALSE, "store error")
          /\ UNCHANGED store
    /\ UNCHANGED <<phase, raised, frameVars, textVars, batch, proc, inv, view, sess>>

\* every batch answered with an array, and every array was empty
AllArraysEmpty(parsed) == parsed # <<>> /\ \A k \in 1..Len(parsed) : parsed[k] = <<>>

\* insert_many(documents), _update_metadata and the return.  insert_many
\* raises on an empty list; when it fails part-way the documents already
\* written stay.  generate_ai_incidents skips it when nothing was generated.
InsertIncidents ==
    /\ phase = "generate"
    /\ gen.pc = "insert"
    /\ IF gen.all = <<>>
       THEN /\ gen' = Returned(gen, FALSE,
                               IF gen.op = "ingest" THEN "nothing to insert"
                               ELSE IF AllArraysEmpty(gen.parsed) THEN "empty result"
                               ELSE "nothing generated")
            /\ UNCHANGED store
       ELSE \/ /\ \E meta \in {store.metadata,
                               [record_count |-> Len(gen.all),
                                source_file |-> gen.all[1].source]} :
                     store' = [store EXCEPT !.incidents = @ \o gen.all,
                                            !.metadata = meta]
               /\ gen' = Returned(gen, TRUE, "stored")
            \/ /\ \E k \in 0..(Len(gen.all) - 1) :
                     store' = [store EXCEPT !.incidents = @ \o SubSeq(gen.all, 1, k)]
               /\ gen' = Returned(gen, FALSE, "store error")
    /\ UNCHANGED <<phase, raised, frameVars, textVars, batch, proc, inv, view, sess>>

NextGenerate ==
    \/ CallGenerate
    \/ GenBatch
    \/ CallIngest
    \/ ClearIncidents
    \/ ClearWorkload
    \/ InsertIncidents

SpecGenerate == InitGenerate /\ [][NextGenerate]_vars

\* DataIngestManager.get_incidents(limit): every stored incident without
\* _ingested_at and _source, the first limit of them when limit is truthy;
\* [] when the manager is not available
IngestGetIncidents(st, limit) ==
    IF ~st.available THEN <<>>
    ELSE LET docs == [k \in 1..Len(st.incidents) |->
                        [f \in DOMAIN st.incidents[k] \ {"source"} |-> st.incidents[k][f]]]
         IN IF limit.some /\ limit.value # 0 /\ limit.value < Len(docs)
            THEN SubSeq(docs, 1, limit.value)
            ELSE docs

---------------------------------------------------------------------------
(* Properties of generation and ingestion *)

\* C13: the outcome generate_ai_incidents gives its caller when the model
\* output is not a valid JSON array differs from the outcome it gives when
\* every batch parsed to a valid empty array.
C13_MalformedDiffersFromEmpty ==
    \A i, j \in 1..Len(gen.log) :
        (gen.log[i].op = "generate" /\ gen.log[i].cause = "malformed output"
            /\ gen.log[j].op = "generate" /\ gen.log[j].cause = "empty result")
        => gen.log[i].ret # gen.log[j].ret

\* C14: whenever generate_ai_incidents or ingest_incidents_data returns
\* False, the incidents and workload collections hold exactly the documents
\* they held before the call.
C14_NoPartialWrite ==
    (gen.pc = "returned" /\ ~gen.ret)
        => (store.incidents = gen.before.incidents
            /\ store.workload = gen.before.workload)

\* generate_ai_incidents has returned True
Generated == gen.pc = "returned" /\ gen.op = "generate" /\ gen.ret

ResolvedFirst(queue) ==
    \A i, j \in 1..Len(queue) :
        (i < j /\ queue[j] = "resolved") => queue[i] = "resolved"

\* C25: in generate_ai_incidents every model call of every batch, the
\* resolved batches first, is over before the first store mutation: while
\* batches are being requested, and after a call that returned False
\* because a model call or the parsing of a batch failed, both collections
\* are as they were before the call, whatever earlier batches produced; and
\* once a store operation has been issued no batch is left to request.
C25_ModelCallsBeforeStore ==
    gen.op = "generate" =>
        /\ ResolvedFirst(gen.queue)
        /\ (gen.pc = "batches"
              \/ (gen.pc = "returned" /\ gen.cause \in {"no response", "malformed output"}))
            => (~gen.ret
                /\ store.incidents = gen.before.incidents
                /\ store.workload = gen.before.workload)
        /\ gen.pc \in {"clear_workload", "insert"} => gen.queue = <<>>
        /\ (store.incidents # gen.before.incidents \/ store.workload # gen.before.workload)
            => gen.queue = <<>>

C25_Witness ==
    /\ gen.pc = "returned"
    /\ gen.op = "generate"
    /\ gen.cause = "malformed output"
    /\ gen.all # <<>>
    /\ gen.before.incidents # <<>>
    /\ store.incidents = gen.before.incidents

\* C30: whenever generate_ai_incidents returns True, no two documents of
\* the incidents collection have the same incident_id.
C30_UniqueIds ==
    Generated =>
        \A i, j \in 1..Len(store.incidents) :
            store.incidents[i].incident_id = store.incidents[j].incident_id => i = j

---------------------------------------------------------------------------
(* Properties of _process_ai_incident *)

NonEmpty(v) == v # Absent /\ ~Falsy(v)
IsEmpty(v) == v = EmptyStr

\* the three resolution fields of a model object or of an output record
ResolutionEmpty(d) ==
    /\ ~NonEmpty(d.resolution_code)
    /\ ~NonEmpty(d.resolved_on)
    /\ ~NonEmpty(d.resolution_notes)
ResolutionPopulated(d) ==
    /\ NonEmpty(d.resolution_code)
    /\ NonEmpty(d.resolved_on)
    /\ NonEmpty(d.resolution_notes)
ResolutionCleared(r) ==
    /\ IsEmpty(r.resolution_code)
    /\ IsEmpty(r.resolved_on)
    /\ IsEmpty(r.resolution_notes)

\* a call that returned a record
Processed == proc.pc = "done" /\ proc.out.some

\* C15 as claimed: in either batch type, an object whose own status is
\* Resolved and whose resolution fields are empty comes out with the three
\* resolution fields non-empty, and an object whose own status is Open and
\* whose resolution fields are populated comes out with all three empty.
C15_DefaultByOwnStatus ==
    Processed =>
        LET d == proc.incident.d
            r == proc.out.value
        IN /\ (d.status = Word("Resolved") /\ ResolutionEmpty(d))
                => ResolutionPopulated(r)
           /\ (d.status = Word("Open") /\ ResolutionPopulated(d))
                => ResolutionCleared(r)

\* C15 amended: defaulting goes by the batch type, not by the status of the
\* object: in a resolved batch an object with empty resolution fields comes
\* out with all three non-empty, in an unresolved batch an object with
\* populated resolution fields comes out with all three empty, whatever
\* status the object had.
C15_DefaultByBatchType ==
    Processed =>
        LET d == proc.incident.d
            r == proc.out.value
        IN /\ (proc.status_type = "resolved" /\ ResolutionEmpty(d))
                => ResolutionPopulated(r)
           /\ (proc.status_type = "unresolved" /\ ResolutionPopulated(d))
                => ResolutionCleared(r)

C15_Witness ==
    /\ Processed
    /\ proc.status_type = "resolved"
    /\ proc.incident.d.status = Word("Open")
    /\ ResolutionEmpty(proc.incident.d)
    /\ ResolutionPopulated(proc.out.value)

\* C16: every record returned by _process_ai_incident either has status
\* Resolved with non-empty resolution_code, resolved_on, resolution_notes
\* and assigned_to, or has a status among Open, In Progress, Assigned with
\* the three resolution fields empty.
C16_CrossFieldPolicy ==
    Processed =>
        LET r == proc.out.value
        IN \/ /\ r.status = Word("Resolved")
              /\ ResolutionPopulated(r)
              /\ NonEmpty(r.assigned_to)
           \/ /\ r.status \in {Word(x) : x \in UnresolvedStatuses}
              /\ ResolutionCleared(r)

C16_Witness ==
    /\ Processed
    /\ proc.status_type = "unresolved"
    /\ proc.incident.d.status = Word("Closed")
    /\ ResolutionPopulated(proc.incident.d)
    /\ proc.out.value.status = Word("Assigned")
    /\ ResolutionCleared(proc.out.value)

\* C17: in every record returned by _process_ai_incident the status is one
\* of Open, In Progress, Assigned, Resolved, and the resolution_code of a
\* resolved record is one of Fixed, Workaround, User Error, Duplicate.
C17_EnumFields ==
    Processed =>
        LET r == proc.out.value
        IN /\ r.status \in {Word(x) : x \in UnresolvedStatuses \cup {"Resolved"}}
           /\ r.status = Word("Resolved")
                => r.resolution_code \in {Word(x) : x \in ResolutionCodes}

IsDigit(c) == \E k \in 1..Len(DigitChars) : DigitChars[k] = c

\* 'INC' followed by four digits, the width of the synthetic identifier
WellFormedId(v) ==
    /\ v.ty = "str"
    /\ Len(v.s) = 5
    /\ v.s[1] = "INC"
    /\ \A k \in 2..5 : IsDigit(v.s[k])

\* C18: every record returned by _process_ai_incident has an incident_id
\* of the form INC followed by a fixed-width run of digits, for every
\* identifier in the model object, every index and every clock value.
C18_IncidentIdPattern ==
    Processed => WellFormedId(proc.out.value.incident_id)

---------------------------------------------------------------------------
(* BedrockClient.invoke_model                                              *)
(*                                                                         *)
(* A model id is [prefix, family]: the family is the part the code tests   *)
(* with the in operator, the prefix is "us." for an inference profile.     *)
(* Every call of the Bedrock runtime is a step; it answers with text or    *)
(* raises.                                                                 *)

ModelIdsOf ==
    [prefix : {"", "us."},
     family : {"anthropic.claude", "amazon.titan", "amazon.nova", "meta.llama"}]

\* _get_inference_profile_id(model_id)
InferenceProfileId(m) ==
    IF m.family \in {"anthropic.claude", "amazon.nova"} /\ m.prefix # "us."
    THEN [m EXCEPT !.prefix = "us."]
    ELSE m

AttemptIds_thrice(m) == <<m, InferenceProfileId(m), InferenceProfileId(m)>>

\* for attempt_model_id in [model_id, self._get_inference_profile_id(model_id)]
AttemptIds(m) == <<m, InferenceProfileId(m)>>

\* the body formats _invoke_with_native_api sends, in order
NativeFormats(m) ==
    CASE m.family = "anthropic.claude" -> <<"claude">>
      [] m.family = "amazon.titan" -> <<"titan">>
      [] m.family = "amazon.nova" -> <<"nova">>
      [] OTHER -> <<"titan", "claude">>

\* the stripped text of a successful answer
ResponseTexts == {"", "text"}

\* messages of the exceptions the runtime raises
ErrorTexts == {"inference profile", "throttled"}

InitInvoke ==
    /\ phase = "invoke"
    /\ FramesIdle
    /\ TextIdle
    /\ raised = FALSE
    /\ batch = Idle /\ proc = Idle /\ gen = Idle /\ store = Idle /\ view = Idle /\ sess = Idle
    /\ \E a \in BOOLEAN, m \in ModelIdsOf, sp \in BOOLEAN :
          inv = [pc |-> "called", available |-> a, model |-> m, system |-> sp,
                 k |-> 1, f |-> 1, log |-> <<>>, ret |-> Nothing]

InvReturn(v) == [inv EXCEPT !.pc = "returned", !.ret = v]

\* a request to the runtime and how it ended
Request(api, format, ok, text) ==
    [api |-> api, format |-> format, id |-> AttemptIds(inv.model)[inv.k],
     system |-> (api = "converse" /\ inv.system), ok |-> ok, text |-> text]

NextAttempt_once(log) ==
    [inv EXCEPT !.pc = "returned", !.ret = Nothing, !.log = log]

\* the end of one pass of the loop: the next id, or the return after it
NextAttempt(log) ==
    IF inv.k < Len(AttemptIds(inv.model))
    THEN [inv EXCEPT !.pc = "converse", !.k = @ + 1, !.f = 1, !.log = log]
    ELSE [inv EXCEPT !.pc = "returned", !.ret = Nothing, !.log = log]

\* invoke_model up to the loop
InvokeModel ==
    /\ phase = "invoke"
    /\ inv.pc = "called"
    /\ inv' = IF ~inv.available THEN InvReturn(Nothing)
              ELSE [inv EXCEPT !.pc = "converse"]
    /\ UNCHANGED <<phase, raised, frameVars, textVars, batch, proc, gen, store, view, sess>>

\* return self._invoke_with_converse(...), or the except branch
InvokeWithConverse ==
    /\ phase = "invoke"
    /\ inv.pc = "converse"
    /\ \/ \E t \in ResponseTexts :
            inv' = [InvReturn(Some(t)) EXCEPT
                       !.log = Append(@, Request("converse", "messages", TRUE, t))]
       \/ \E e \in ErrorTexts :
            inv' = [inv EXCEPT !.pc = "native", !.f = 1,
                       !.log = Append(@, Request("converse", "messages", FALSE, e))]
    /\ UNCHANGED <<phase, raised, frameVars, textVars, batch, proc, gen, store, view, sess>>

\* return self._invoke_with_native_api(...): one InvokeModel request in the
\* format of the model family (for an unknown family the Titan format, then
\* the Claude format); when the last format fails the loop goes on to the
\* next id, with or without the continue
InvokeWithNativeApi ==
    /\ phase = "invoke"
    /\ inv.pc = "native"
    /\ LET formats == NativeFormats(AttemptIds(inv.model)[inv.k])
       IN \/ \E t \in ResponseTexts :
               inv' = [InvReturn(Some(t)) EXCEPT
                          !.log = Append(@, Request("invoke_model", formats[inv.f], TRUE, t))]
          \/ \E e \in ErrorTexts :
               LET log == Append(inv.log, Request("invoke_model", formats[inv.f], FALSE, e))
               IN inv' = IF inv.f < Len(formats)
                         THEN [inv EXCEPT !.f = @ + 1, !.log = log]
                         ELSE NextAttempt(log)
    /\ UNCHANGED <<phase, raised, frameVars, textVars, batch, proc, gen, store, view, sess>>

NextInvoke == InvokeModel \/ InvokeWithConverse \/ InvokeWithNativeApi

SpecInvoke == InitInvoke /\ [][NextInvoke]_vars

---------------------------------------------------------------------------
(* Properties of invoke_model *)

RequestsWith(api) == {i \in 1..Len(inv.log) : inv.log[i].api = api}

SameShapeSameId(i, j) ==
    /\ inv.log[i].api = inv.log[j].api
    /\ inv.log[i].id = inv.log[j].id

\* C19 as claimed: no execution of invoke_model issues more than two
\* requests to the hosted model, and none repeats a request shape for the
\* same model id.
C19_AtMostTwoRequests ==
    /\ Len(inv.log) <= 2
    /\ \A i, j \in 1..Len(inv.log) : SameShapeSameId(i, j) => i = j

\* C19 amended: for each id it tries invoke_model makes at most one Converse
\* attempt and then the native fallback (one InvokeModel request for Claude,
\* Titan and Nova ids, two for other ids); it tries the given id and then
\* the inference-profile id.  So no execution issues more than two Converse
\* and four InvokeModel requests, none issues a request after one
\* succeeded, and a Converse request or a native body format is repeated
\* for the same id only when the inference-profile id is the given id, and
\* then once.
C19_TwoIdsTwoShapes ==
    /\ Cardinality(RequestsWith("converse")) <= 2
    /\ Cardinality(RequestsWith("invoke_model")) <=
          (IF inv.model.family = "meta.llama" THEN 4 ELSE 2)
    /\ \A i \in 1..(Len(inv.log) - 1) : ~inv.log[i].ok
    /\ \A i \in 1..Len(inv.log) :
          Cardinality({j \in 1..Len(inv.log) :
                          SameShapeSameId(i, j)
                          /\ inv.log[i].format = inv.log[j].format})
            <= (IF InferenceProfileId(inv.model) = inv.model THEN 2 ELSE 1)

C19_Witness ==
    /\ inv.pc = "returned"
    /\ inv.model = [prefix |-> "", family |-> "anthropic.claude"]
    /\ ~inv.ret.some
    /\ Len(inv.log) = 4
    /\ inv.log[3].api = "converse"
    /\ inv.log[3].id = [prefix |-> "us.", family |-> "anthropic.claude"]

\* the attempts in the order claimed: for the given id and then for the
\* inference-profile id, Converse and then the native API (for a family
\* the code does not know, the Titan body and then the Claude body)
ClaimedAttempts(m) ==
    LET native(id) ==
            IF id.family = "anthropic.claude" THEN <<[api |-> "invoke_model", format |-> "claude", id |-> id]>>
            ELSE IF id.family = "amazon.nova" THEN <<[api |-> "invoke_model", format |-> "nova", id |-> id]>>
            ELSE IF id.family = "amazon.titan" THEN <<[api |-> "invoke_model", format |-> "titan", id |-> id]>>
            ELSE <<[api |-> "invoke_model", format |-> "titan", id |-> id],
                   [api |-> "invoke_model", format |-> "claude", id |-> id]>>
        pass(id) == <<[api |-> "converse", format |-> "messages", id |-> id]>> \o native(id)
        profile == IF m.prefix = "us." \/ m.family \notin {"anthropic.claude", "amazon.nova"}
                   THEN m ELSE [prefix |-> "us.", family |-> m.family]
    IN pass(m) \o pass(profile)

\* C26: invoke_model returns text or None and never raises; it issues no
\* request when the client is unavailable and returns None; otherwise its
\* requests are, in order, Converse then native API with the given id,
\* then Converse then native API with the inference-profile id; it returns
\* the text of the first attempt that succeeds and makes no later attempt,
\* and returns None only when every attempt failed.
C26_TextOrNone ==
    LET want == ClaimedAttempts(inv.model)
        n == Len(inv.log)
    IN /\ ~raised
       /\ ~inv.available => (n = 0 /\ inv.pc \in {"called", "returned"} /\ inv.ret = Nothing)
       /\ n <= Len(want)
       /\ \A i \in 1..n :
             /\ inv.log[i].api = want[i].api
             /\ inv.log[i].format = want[i].format
             /\ inv.log[i].id = want[i].id
             /\ inv.log[i].ok => (i = n /\ inv.pc = "returned"
                                   /\ inv.ret = Some(inv.log[i].text))
       /\ inv.pc = "returned" =>
             \/ inv.ret \in {Some(t) : t \in ResponseTexts} /\ n > 0 /\ inv.log[n].ok
             \/ /\ inv.ret = Nothing
                /\ \A i \in 1..n : ~inv.log[i].ok
                /\ inv.available => n = Len(want)

C26_Witness ==
    /\ inv.pc = "returned"
    /\ inv.model = [prefix |-> "", family |-> "amazon.nova"]
    /\ Len(inv.log) = 3
    /\ inv.log[3].ok
    /\ inv.log[3].id = [prefix |-> "us.", family |-> "amazon.nova"]
    /\ inv.ret = Some("text")

---------------------------------------------------------------------------
(* DataService.get_workload                                                *)
(*                                                                         *)
(* A stored document is a record of JSON values, Absent for a key the      *)
(* document does not have.  pd.DataFrame(documents) has the union of the   *)
(* keys as columns and NaN where a document lacks a key.                   *)

MaxDocs == 2        \* documents in the incidents collection

JNaN == [ty |-> "nan", s |-> <<>>]

\* find({}, {"_ingested_at": 0, "_source": 0}): the keys of a document
KeysOf(doc) == {k \in DOMAIN doc : doc[k] # Absent} \ {"source"}

\* pd.DataFrame(incidents)
DataFrame(docs) ==
    LET cols == UNION {KeysOf(docs[i]) : i \in 1..Len(docs)}
    IN [cols |-> cols,
        rows |-> [i \in 1..Len(docs) |->
                    [c \in cols |-> IF c \in KeysOf(docs[i]) THEN docs[i][c] ELSE JNaN]]]

\* df['status'].isin(['Open', 'In Progress', 'Assigned'])
IsUnresolved(row) == row.status \in {Word(x) : x \in UnresolvedStatuses}

\* df['assigned_to'].isna() | (df['assigned_to'] == '')
IsUnassigned(row) == row.assigned_to \in {JNaN, JNull, EmptyStr}

\* df.head(n): the first n rows, all but the last -n for a negative n
HeadRows(frame, n) ==
    [frame EXCEPT !.rows =
        IF n >= 0 THEN SubSeq(@, 1, IF n < Len(@) THEN n ELSE Len(@))
        ELSE SubSeq(@, 1, IF Len(@) + n > 0 THEN Len(@) + n ELSE 0)]

\* _refresh_mongodb_status: use_mongodb and mongodb_has_data
HasData(st) ==
    st.available /\ (st.incidents # <<>> \/ st.agents # <<>> \/ st.workload # <<>>)

\* if 'status' in df.columns: the status filter and, inside it, the
\* assignment filter
StatusFilter(frame) ==
    IF "status" \in frame.cols
    THEN LET unresolved == [frame EXCEPT !.rows = SelectSeq(@, IsUnresolved)]
         IN IF "assigned_to" \in frame.cols
            THEN [unresolved EXCEPT !.rows = SelectSeq(@, IsUnassigned)]
            ELSE unresolved
    ELSE frame

\* get_workload(limit); limit 0 stands for None as well
GetWorkloadFrame(st, limit) ==
    IF HasData(st) /\ st.incidents # <<>>
    THEN LET filtered == StatusFilter(DataFrame(st.incidents))
         IN IF limit # 0 /\ Len(filtered.rows) > limit
            THEN HeadRows(filtered, limit)
            ELSE filtered
    ELSE EmptyFrame

\* the k-th stored incident
StoredIncidents(k) ==
    { [incident_id |-> Str(<<"INC", "0", "0", "0", DigitChars[k + 1]>>),
       status |-> st, assigned_to |-> a] :
        st \in { Absent, Word("Open"), Word("In Progress"), Word("Assigned"),
                 Word("Resolved") },
        a \in { Absent, JNull, EmptyStr, AgentId(5) } }

\* contents of the incidents collection, identifiers in insertion order
RECURSIVE StoredLists(_)
StoredLists(n) ==
    IF n = 0 THEN {<<>>}
    ELSE { Append(l, d) : l \in StoredLists(n - 1), d \in StoredIncidents(n) }

InitWorkload ==
    /\ phase = "workload"
    /\ FramesIdle
    /\ TextIdle
    /\ raised = FALSE
    /\ batch = Idle /\ proc = Idle /\ gen = Idle /\ inv = Idle /\ sess = Idle
    /\ \E a \in BOOLEAN, n \in 0..MaxDocs :
         \E docs \in StoredLists(n), ag \in {<<>>, <<"agent">>} :
            store = [available |-> a, incidents |-> docs, agents |-> ag,
                     workload |-> <<>>, metadata |-> NoMetadata]
    /\ view = [pc |-> "ready", limit |-> 0, out |-> EmptyFrame]

\* data_service.get_workload(limit)
GetWorkload ==
    /\ phase = "workload"
    /\ view.pc = "ready"
    /\ \E limit \in -1..MaxDocs :
          view' = [pc |-> "done", limit |-> limit, out |-> GetWorkloadFrame(store, limit)]
    /\ UNCHANGED <<phase, raised, frameVars, textVars, batch, proc, gen, store, inv, sess>>

NextWorkload == GetWorkload

SpecWorkload == InitWorkload /\ [][NextWorkload]_vars

---------------------------------------------------------------------------
(* Properties of the workload queue *)

\* the stored incident is unresolved and unassigned
InQueue(doc) ==
    /\ doc.status \in {Word(x) : x \in UnresolvedStatuses}
    /\ doc.assigned_to \in {Absent, JNull, EmptyStr}

\* the identifiers of the rows, in order
IdsOf(rows) == [i \in 1..Len(rows) |-> rows[i].incident_id]

\* C20: get_workload returns precisely the stored incidents whose status is
\* Open, In Progress or Assigned and whose assigned_to is empty or missing,
\* truncated to the first limit rows when a positive limit is given; no
\* resolved or assigned incident is ever returned.
C20_WorkloadExact ==
    (view.pc = "done" /\ store.available /\ view.limit >= 0) =>
        LET queue == IdsOf(SelectSeq(store.incidents, InQueue))
            expected == IF view.limit > 0 /\ Len(queue) > view.limit
                        THEN SubSeq(queue, 1, view.limit) ELSE queue
        IN IdsOf(view.out.rows) = expected

---------------------------------------------------------------------------
(* DataService: get_incident_by_id, update_incident_priority and           *)
(* update_incident_assignment                                              *)
(*                                                                         *)
(* One DataService object and the incidents collection.  The object keeps  *)
(* use_mongodb and mongodb_has_data from its construction or from its last *)
(* get_* call; the collection is also replaced by the ingest manager.      *)

MaxOps == 2         \* operations after the construction of the DataService

\* a stored incident of this scenario
Incident(id, status, assigned_to) ==
    [incident_id |-> id, status |-> status, assigned_to |-> assigned_to,
     priority |-> Word("P3"), true_priority |-> Absent,
     resolution_code |-> IF status = Word("Resolved") THEN Word("Fixed") ELSE EmptyStr,
     updated_at |-> Absent]

Inc1 == Str(<<"INC", "0", "0", "0", "1">>)
Inc2 == Str(<<"INC", "0", "0", "0", "2">>)
Inc9 == Str(<<"INC", "0", "0", "0", "9">>)

\* contents of the incidents collection after an ingestion or a generation
IncidentLists ==
    { <<>>,
      <<Incident(Inc1, Word("Open"), EmptyStr)>>,
      <<Incident(Inc1, Word("In Progress"), EmptyStr),
        Incident(Inc2, Word("Resolved"), AgentId(5))>>,
      <<Incident(Inc1, Word("Open"), EmptyStr),
        Incident(Inc2, Word("Open"), EmptyStr)>>,
      <<Incident(Inc1, Word("Open"), EmptyStr),
        Incident(Inc1, Word("Open"), EmptyStr)>>,
      <<Incident(Inc1, Absent, EmptyStr)>> }

\* the value of datetime.utcnow() at the n-th operation
Stamp(n) == Str(<<"t", DigitChars[n + 1]>>)

\* the position of the document find_one and update_one select for
\* {"incident_id": id}: the first match, 0 when there is none
FindOne(docs, id) ==
    IF \E k \in 1..Len(docs) : docs[k].incident_id = id
    THEN CHOOSE k \in 1..Len(docs) :
            /\ docs[k].incident_id = id
            /\ \A j \in 1..(k - 1) : docs[j].incident_id # id
    ELSE 0

UpdateOne_many(docs, id, set) ==
    LET changed(d) == [f \in DOMAIN d |-> IF f \in DOMAIN set THEN set[f] ELSE d[f]]
        after == [k \in 1..Len(docs) |->
                    IF docs[k].incident_id = id THEN changed(docs[k]) ELSE docs[k]]
    IN [docs |-> after, modified_count |-> IF after = docs THEN 0 ELSE 1]

\* update_one({"incident_id": id}, {"$set": set})
UpdateOne(docs, id, set) ==
    LET k == FindOne(docs, id)
        changed == [f \in DOMAIN docs[k] |-> IF f \in DOMAIN set THEN set[f] ELSE docs[k][f]]
    IN IF k = 0 THEN [docs |-> docs, modified_count |-> 0]
       ELSE [docs |-> [docs EXCEPT ![k] = changed],
             modified_count |-> IF changed = docs[k] THEN 0 ELSE 1]

\* get_incident_by_id(id) of a service whose flags are svc; the projection
\* drops _id, _ingested_at and _source, which these documents do not carry
GetIncidentById(svc, st, id) ==
    IF svc.use_mongodb /\ svc.mongodb_has_data /\ FindOne(st.incidents, id) # 0
    THEN Some(st.incidents[FindOne(st.incidents, id)])
    ELSE Nothing

PrioritySet_noTruePriority(p, now) ==
    [priority |-> p, updated_at |-> now]

\* the $set document of update_incident_priority
PrioritySet(p, now) ==
    [priority |-> p, true_priority |-> p, updated_at |-> now]

\* update_data of update_incident_assignment; incident is what
\* get_incident_by_id returned
AssignmentSet(incident, agent, now) ==
    IF incident.some /\ incident.value.status = Word("Open")
    THEN [assigned_to |-> agent, updated_at |-> now, status |-> Word("Assigned")]
    ELSE [assigned_to |-> agent, updated_at |-> now]

NoOp == [op |-> "", id |-> EmptyStr, arg |-> EmptyStr, ret |-> FALSE,
         fault |-> FALSE, before |-> <<>>, out |-> EmptyFrame]

\* DataService(): _refresh_mongodb_status on the store as it is
InitService ==
    /\ phase = "service"
    /\ FramesIdle
    /\ TextIdle
    /\ raised = FALSE
    /\ batch = Idle /\ proc = Idle /\ gen = Idle /\ inv = Idle /\ sess = Idle
    /\ \E a \in BOOLEAN, docs \in IncidentLists :
          /\ store = [available |-> a, incidents |-> docs, agents |-> <<>>,
                      workload |-> <<>>]
          /\ view = [pc |-> "ready", use_mongodb |-> a,
                     mongodb_has_data |-> HasData(store), ops |-> 0, last |-> NoOp]

\* the operation just finished; fault tells whether a store call raised
Done(op, id, arg, ret, fault) ==
    [view EXCEPT !.ops = @ + 1,
                 !.last = [op |-> op, id |-> id, arg |-> arg, ret |-> ret,
                           fault |-> fault,
                           before |-> store.incidents, out |-> EmptyFrame]]

\* a successful ingest_incidents_data or generate_ai_incidents of the
\* ingest manager: the collection is replaced; the service is not told
ServiceIngest ==
    /\ phase = "service"
    /\ view.ops < MaxOps
    /\ store.available
    /\ \E docs \in IncidentLists \ {<<>>} :
          /\ store' = [store EXCEPT !.incidents = docs]
          /\ view' = Done("ingest", EmptyStr, EmptyStr, TRUE, FALSE)
    /\ UNCHANGED <<phase, raised, frameVars, textVars, batch, proc, gen, inv, sess>>

\* get_workload(): refreshes the flags, then reads
ServiceGetWorkload ==
    /\ phase = "service"
    /\ view.ops < MaxOps
    /\ view' = [Done("get_workload", EmptyStr, EmptyStr, TRUE, FALSE) EXCEPT
                   !.use_mongodb = store.available,
                   !.mongodb_has_data = HasData(store),
                   !.last.out = GetWorkloadFrame(store, 0)]
    /\ UNCHANGED <<phase, raised, frameVars, textVars, batch, proc, gen, store, inv, sess>>

\* update_incident_priority(incident_id, new_priority); update_one may raise
UpdateIncidentPriority ==
    /\ phase = "service"
    /\ view.ops < MaxOps
    /\ \E id \in {Inc1, Inc9}, p \in {Word("P1"), Word("P3")}, fails \in BOOLEAN :
          LET r == UpdateOne(store.incidents, id, PrioritySet(p, Stamp(view.ops + 1)))
          IN IF view.use_mongodb /\ view.mongodb_has_data /\ ~fails
             THEN /\ store' = [store EXCEPT !.incidents = r.docs]
                  /\ view' = Done("priority", id, p, r.modified_count > 0, FALSE)
             ELSE /\ view' = Done("priority", id, p, FALSE, fails)
                  /\ UNCHANGED store
    /\ UNCHANGED <<phase, raised, frameVars, textVars, batch, proc, gen, inv, sess>>

\* update_incident_assignment(incident_id, agent_id): get_incident_by_id
\* (None when find_one raises), then update_one, which may raise
UpdateIncidentAssignment ==
    /\ phase = "service"
    /\ view.ops < MaxOps
    /\ \E id \in {Inc1, Inc9}, agent \in {AgentId(1)}, lost \in BOOLEAN, fails \in BOOLEAN :
          LET incident == IF lost THEN Nothing ELSE GetIncidentById(view, store, id)
              r == UpdateOne(store.incidents, id,
                             AssignmentSet(incident, agent, Stamp(view.ops + 1)))
          IN IF view.use_mongodb /\ view.mongodb_has_data /\ ~fails
             THEN /\ store' = [store EXCEPT !.incidents = r.docs]
                  /\ view' = Done("assignment", id, agent, r.modified_count > 0, lost)
             ELSE /\ view' = Done("assignment", id, agent, FALSE, fails \/ lost)
                  /\ UNCHANGED store
    /\ UNCHANGED <<phase, raised, frameVars, textVars, batch, proc, gen, inv, sess>>

NextService ==
    \/ ServiceIngest
    \/ ServiceGetWorkload
    \/ UpdateIncidentPriority
    \/ UpdateIncidentAssignment

SpecService == InitService /\ [][NextService]_vars

---------------------------------------------------------------------------
(* Properties of the data service *)

\* the document the last operation addressed, before and after it
Target == FindOne(view.last.before, view.last.id)
Before == view.last.before[Target]
After == store.incidents[Target]

\* every document but the addressed one is as it was
OthersUnchanged ==
    /\ Len(store.incidents) = Len(view.last.before)
    /\ \A k \in 1..Len(store.incidents) :
          k # Target => store.incidents[k] = view.last.before[k]

\* the addressed document differs from what it was in the fields of S only
ChangedOnly(S) == \A f \in DOMAIN Before \ S : After[f] = Before[f]

\* C27: after update_incident_assignment(id, agent) with a non-empty agent
\* returns True, get_workload returns no incident with that id; the
\* incident's status is 'Assigned' if it was 'Open' and is otherwise
\* unchanged; its resolution fields and every other incident are
\* unchanged.
C27_AssignmentLeavesQueue ==
    (view.last.op = "assignment" /\ view.last.ret) =>
        /\ \A k \in 1..Len(GetWorkloadFrame(store, 0).rows) :
              GetWorkloadFrame(store, 0).rows[k].incident_id # view.last.id
        /\ After.status = IF Before.status = Word("Open")
                          THEN Word("Assigned") ELSE Before.status
        /\ After.resolution_code = Before.resolution_code
        /\ OthersUnchanged

C29_CurrentStore ==
    store.available =>
        /\ \A k \in 1..Len(store.incidents) :
              GetIncidentById(view, store, store.incidents[k].incident_id).some
        /\ (view.last.op \in {"priority", "assignment"} /\ ~view.last.fault /\ Target # 0)
              => (view.last.ret /\ After # Before)

---------------------------------------------------------------------------
(* Two sessions on one store                                               *)
(*                                                                         *)
(* Each session runs one operation; every pymongo call is a step, and the  *)
(* steps of the two sessions interleave.  The model calls of a generation  *)
(* and the reading of the CSV are over before the first store call, so an  *)
(* operation starts with the documents it is going to insert.  The data    *)
(* services have seen a store with data.                                   *)

Sessions == {1, 2}

Refreshed == [use_mongodb |-> TRUE, mongodb_has_data |-> TRUE]

\* the operation a session runs: what it is, and its arguments
SessionOps(s) ==
    { [op |-> "generate", id |-> EmptyStr, arg |-> EmptyStr,
       docs |-> <<Incident(IF s = 1 THEN Inc1 ELSE Inc2, Word("Resolved"), AgentId(5))>>],
      [op |-> "ingest", id |-> EmptyStr, arg |-> EmptyStr,
       docs |-> <<Incident(Inc1, Word("In Progress"), EmptyStr)>>],
      [op |-> "priority", id |-> Inc1, arg |-> Word("P1"), docs |-> <<>>],
      [op |-> "assignment", id |-> Inc1, arg |-> AgentId(s), docs |-> <<>>] }

\* the first store call of each operation
FirstStep(op) ==
    CASE op = "generate" -> "delete_incidents"
      [] op = "ingest" -> "delete_incidents"
      [] op = "priority" -> "update_one"
      [] op = "assignment" -> "find_one"

InitSessions ==
    /\ phase = "sessions"
    /\ FramesIdle
    /\ TextIdle
    /\ raised = FALSE
    /\ batch = Idle /\ proc = Idle /\ gen = Idle /\ inv = Idle /\ view = Idle
    /\ \E docs \in IncidentLists \ {<<>>}, w \in {<<>>, <<"item">>} :
          store = [available |-> TRUE, incidents |-> docs, agents |-> <<>>,
                   workload |-> w]
    /\ \E c \in [Sessions -> UNION {SessionOps(s) : s \in Sessions}] :
          /\ \A s \in Sessions : c[s] \in SessionOps(s)
          /\ sess = [initial |-> store,
                     of |-> [s \in Sessions |->
                               [pc |-> FirstStep(c[s].op), call |-> c[s],
                                incident |-> Nothing, ret |-> FALSE]]]

Step(s, pc) == [sess EXCEPT !.of[s].pc = pc]

Finish(s, ret) == [sess EXCEPT !.of[s].pc = "done", !.of[s].ret = ret]

\* incidents_collection.delete_many({}) of generate_ai_incidents and of
\* ingest_incidents_data
SessionDeleteIncidents ==
    /\ phase = "sessions"
    /\ \E s \in Sessions :
          /\ sess.of[s].pc = "delete_incidents"
          /\ store' = [store EXCEPT !.incidents = <<>>]
          /\ sess' = Step(s, IF sess.of[s].call.op = "generate" THEN "delete_workload"
                             ELSE "insert_many")
    /\ UNCHANGED <<phase, raised, frameVars, textVars, batch, proc, gen, inv, view>>

\* workload_collection.delete_many({}) of generate_ai_incidents
SessionDeleteWorkload ==
    /\ phase = "sessions"
    /\ \E s \in Sessions :
          /\ sess.of[s].pc = "delete_workload"
          /\ store' = [store EXCEPT !.workload = <<>>]
          /\ sess' = Step(s, "insert_many")
    /\ UNCHANGED <<phase, raised, frameVars, textVars, batch, proc, gen, inv, view>>

\* incidents_collection.insert_many(documents) and the return
SessionInsertMany ==
    /\ phase = "sessions"
    /\ \E s \in Sessions :
          /\ sess.of[s].pc = "insert_many"
          /\ store' = [store EXCEPT !.incidents = @ \o sess.of[s].call.docs]
          /\ sess' = Finish(s, TRUE)
    /\ UNCHANGED <<phase, raised, frameVars, textVars, batch, proc, gen, inv, view>>

\* incident = self.get_incident_by_id(incident_id)
SessionFindOne ==
    /\ phase = "sessions"
    /\ \E s \in Sessions :
          /\ sess.of[s].pc = "find_one"
          /\ sess' = [Step(s, "update_one") EXCEPT
                         !.of[s].incident =
                             GetIncidentById(Refreshed, store, sess.of[s].call.id)]
    /\ UNCHANGED <<phase, raised, frameVars, textVars, batch, proc, gen, store, inv, view>>

\* the $set document of the session's update
SessionSet(c, incident, now) ==
    IF c.op = "priority" THEN PrioritySet(c.arg, now)
    ELSE AssignmentSet(incident, c.arg, now)

\* incidents_collection.update_one(...) of update_incident_priority and of
\* update_incident_assignment, and the return
SessionUpdateOne ==
    /\ phase = "sessions"
    /\ \E s \in Sessions :
          /\ sess.of[s].pc = "update_one"
          /\ LET r == UpdateOne(store.incidents, sess.of[s].call.id,
                                SessionSet(sess.of[s].call, sess.of[s].incident, Stamp(s)))
             IN /\ store' = [store EXCEPT !.incidents = r.docs]
                /\ sess' = Finish(s, r.modified_count > 0)
    /\ UNCHANGED <<phase, raised, frameVars, textVars, batch, proc, gen, inv, view>>

NextSessions ==
    \/ SessionDeleteIncidents
    \/ SessionDeleteWorkload
    \/ SessionInsertMany
    \/ SessionFindOne
    \/ SessionUpdateOne

SpecSessions == InitSessions /\ [][NextSessions]_vars

---------------------------------------------------------------------------
(* Properties of concurrent sessions *)

\* the collections after session s ran its operation alone on st
Alone(s, st) ==
    LET c == sess.of[s].call
    IN CASE c.op = "generate" ->
              [st EXCEPT !.incidents = c.docs, !.workload = <<>>]
         [] c.op = "ingest" ->
              [st EXCEPT !.incidents = c.docs]
         [] OTHER ->
              [st EXCEPT !.incidents =
                  UpdateOne(@, c.id,
                            SessionSet(c, GetIncidentById(Refreshed, st, c.id),
                                       Stamp(s))).docs]

AllDone == \A s \in Sessions : sess.of[s].pc = "done"

\* C21: for every interleaving of two sessions running generate_ai_incidents,
\* ingest_incidents_data, update_incident_priority or
\* update_incident_assignment, the final incidents collection is the one
\* that running the two operations one after the other, in one of the two
\* orders, gives.
C21_Serializable ==
    AllDone =>
        store.incidents \in { Alone(2, Alone(1, sess.initial)).incidents,
                              Alone(1, Alone(2, sess.initial)).incidents }

---------------------------------------------------------------------------
(* SettingsManager                                                         *)
(*                                                                         *)
(* The global_settings collection is a sequence of documents [id, leaves]: *)
(* leaves maps each path that ends in a scalar to that scalar, a path      *)
(* being the sequence of its keys, so that a sub-document is the set of    *)
(* leaves below its path.  Scalars are strings; None is Python's None.     *)
(* The store keeps _id unique.  A manager is constructed in two store      *)
(* calls, find_one and insert_one, and is used once it is constructed.     *)

MaxWrites == 2      \* writes made through the managers

Managers == {1, 2}

SettingsId == "global_config"

\* p is q or an ancestor of q
IsPrefix(p, q) == Len(p) <= Len(q) /\ SubSeq(q, 1, Len(p)) = p

\* default_settings without its _id
DefaultSettings ==
    LET ai == {"selected_model_id", "selected_model_name", "max_tokens", "temperature"}
        prompts == {"incident_triage", "kb_generation", "agent_assignment"}
        ui == {"theme", "default_page"}
    IN [p \in {<<"ai_model", k>> : k \in ai}
               \cup {<<"system_prompts", k>> : k \in prompts}
               \cup {<<"ui_preferences", k>> : k \in ui} |->
          CASE p[2] \in {"selected_model_id", "selected_model_name"} -> None
            [] p[2] = "max_tokens" -> "1000"
            [] p[2] = "temperature" -> "0.7"
            [] p[2] = "theme" -> "light"
            [] p[2] = "default_page" -> "dashboard"
            [] OTHER -> "You are ..."]

ApplySet_replace(leaves, set) ==
    [ok |-> TRUE, leaves |-> set]

\* {"$set": set} on a document: it fails when a path runs through a scalar;
\* otherwise each path gets its value, in place of whatever was at or below
\* it
ApplySet(leaves, set) ==
    IF \E p \in DOMAIN set, q \in DOMAIN leaves : IsPrefix(q, p) /\ q # p
    THEN [ok |-> FALSE, leaves |-> leaves]
    ELSE LET kept == {q \in DOMAIN leaves : \A p \in DOMAIN set : ~IsPrefix(p, q)}
         IN [ok |-> TRUE,
             leaves |-> [q \in kept \cup DOMAIN set |->
                           IF q \in DOMAIN set THEN set[q] ELSE leaves[q]]]

\* update_one({"_id": "global_config"}, {"$set": set}, upsert=True)
Upsert(docs, set) ==
    IF \E k \in 1..Len(docs) : docs[k].id = SettingsId
    THEN LET k == CHOOSE k \in 1..Len(docs) : docs[k].id = SettingsId
             r == ApplySet(docs[k].leaves, set)
         IN [ok |-> r.ok, docs |-> [docs EXCEPT ![k].leaves = r.leaves]]
    ELSE [ok |-> TRUE, docs |-> Append(docs, [id |-> SettingsId, leaves |-> set])]

InsertOne_twice(docs, doc) ==
    [ok |-> TRUE, docs |-> Append(docs, doc)]

\* insert_one(doc): DuplicateKeyError when the _id is taken
InsertOne(docs, doc) ==
    IF \E k \in 1..Len(docs) : docs[k].id = doc.id
    THEN [ok |-> FALSE, docs |-> docs]
    ELSE [ok |-> TRUE, docs |-> Append(docs, doc)]

\* what get_setting returns: a scalar, or a sub-document given by its
\* leaves, the paths relative to it
Scalar(v) == [ty |-> "scalar", v |-> v, d |-> <<>>]
SubDocument(leaves, path) ==
    LET below == {q \in DOMAIN leaves : IsPrefix(path, q)}
    IN [ty |-> "dict", v |-> "",
        d |-> [r \in {SubSeq(q, Len(path) + 1, Len(q)) : q \in below} |->
                 leaves[path \o r]]]

\* get_setting(key_path, default) of a manager; the document read carries
\* its _id as a key
GetSetting(available, docs, path, default) ==
    IF ~available \/ ~\E k \in 1..Len(docs) : docs[k].id = SettingsId
    THEN default
    ELSE LET doc == docs[CHOOSE k \in 1..Len(docs) : docs[k].id = SettingsId]
         IN IF path = <<"_id">> THEN Scalar(doc.id)
            ELSE IF path \in DOMAIN doc.leaves THEN Scalar(doc.leaves[path])
            ELSE IF \E q \in DOMAIN doc.leaves : IsPrefix(path, q)
            THEN SubDocument(doc.leaves, path)
            ELSE default

\* key paths written and read
WritePaths ==
    { <<"ai_model">>, <<"ai_model", "max_tokens">>,
      <<"ai_model", "max_tokens", "unit">>, <<"ui_preferences", "theme">>,
      <<"beta">> }
ReadPaths ==
    WritePaths \cup { <<"_id">>, <<"ai_model", "temperature">>,
                      <<"system_prompts">>, <<"system_prompts", "kb_generation">>,
                      <<"system_prompts", "oncall">>, <<"ui_preferences">> }
ScalarValues == {None, "v"}
Defaults == {Scalar(None), Scalar("d")}

\* documents a fresh process may find in the collection
StoredSettings ==
    { <<>>,
      <<[id |-> SettingsId, leaves |-> DefaultSettings]>>,
      <<[id |-> SettingsId, leaves |-> [p \in {<<"ai_model">>} |-> "v"]]>> }

NoWrite == [op |-> "", m |-> 1, path |-> <<>>, value |-> "", ret |-> FALSE,
            before |-> <<>>]

InitSettings ==
    /\ phase = "settings"
    /\ FramesIdle
    /\ TextIdle
    /\ raised = FALSE
    /\ batch = Idle /\ proc = Idle /\ gen = Idle /\ inv = Idle /\ view = Idle
    /\ \E docs \in StoredSettings : store = [settings |-> docs]
    /\ \E a \in [Managers -> BOOLEAN] :
          sess = [of |-> [m \in Managers |->
                            [pc |-> IF a[m] THEN "find_one" ELSE "ready",
                             available |-> a[m], seen |-> <<>>, left |-> <<>>,
                             inserted |-> "no"]],
                  writes |-> 0, last |-> NoWrite]

\* _initialize_defaults: existing = find_one({"_id": "global_config"})
InitializeFind ==
    /\ phase = "settings"
    /\ \E m \in Managers :
          /\ sess.of[m].pc = "find_one"
          /\ \/ sess' = [sess EXCEPT !.of[m].pc =
                            IF \E k \in 1..Len(store.settings) :
                                  store.settings[k].id = SettingsId
                            THEN "ready" ELSE "insert_one"]
             \/ sess' = [sess EXCEPT !.of[m].pc = "ready"]
    /\ UNCHANGED <<phase, raised, frameVars, textVars, batch, proc, gen, store, inv, view>>

\* _initialize_defaults: insert_one(default_settings); an exception is
\* logged and the manager is constructed all the same
InitializeInsert ==
    /\ phase = "settings"
    /\ \E m \in Managers :
          /\ sess.of[m].pc = "insert_one"
          /\ LET r == InsertOne(store.settings,
                                [id |-> SettingsId, leaves |-> DefaultSettings])
             IN /\ store' = [store EXCEPT !.settings = r.docs]
                /\ sess' = [sess EXCEPT !.of[m].pc = "ready",
                                        !.of[m].seen = store.settings,
                                        !.of[m].left = r.docs,
                                        !.of[m].inserted = IF r.ok THEN "yes" ELSE "duplicate"]
    /\ UNCHANGED <<phase, raised, frameVars, textVars, batch, proc, gen, inv, view>>

\* a write through manager m: the update reaches the store when the
\* manager is available; otherwise the call returns False (set_setting
\* tests the flag, update_ai_model_settings catches the client's error)
Written(op, m, path, value, set) ==
    LET r == Upsert(store.settings, set)
        sent == sess.of[m].available
    IN /\ store' = [store EXCEPT !.settings = IF sent THEN r.docs ELSE @]
       /\ sess' = [sess EXCEPT !.writes = @ + 1,
                               !.last = [op |-> op, m |-> m, path |-> path,
                                         value |-> value, ret |-> sent /\ r.ok,
                                         before |-> store.settings]]

\* set_setting(key_path, value) with a scalar value
SetSetting ==
    /\ phase = "settings"
    /\ sess.writes < MaxWrites
    /\ \E m \in Managers, path \in WritePaths, v \in ScalarValues :
          /\ sess.of[m].pc = "ready"
          /\ Written("set_setting", m, path, v, [p \in {path} |-> v])
    /\ UNCHANGED <<phase, raised, frameVars, textVars, batch, proc, gen, inv, view>>

\* update_ai_model_settings(model_id, model_name, max_tokens, temperature)
UpdateAiModelSettings ==
    /\ phase = "settings"
    /\ sess.writes < MaxWrites
    /\ \E m \in Managers :
          /\ sess.of[m].pc = "ready"
          /\ Written("update_ai_model_settings", m, <<"ai_model">>, "",
                     [p \in {<<"ai_model", k>> :
                                k \in {"selected_model_id", "selected_model_name",
                                       "max_tokens", "temperature"}} |->
                        IF p[2] = "max_tokens" THEN "2000"
                        ELSE IF p[2] = "temperature" THEN "0.3" ELSE "nova"])
    /\ UNCHANGED <<phase, raised, frameVars, textVars, batch, proc, gen, inv, view>>

\* update_system_prompt(use_case, prompt)
UpdateSystemPrompt ==
    /\ phase = "settings"
    /\ sess.writes < MaxWrites
    /\ \E m \in Managers, use_case \in {"kb_generation", "oncall"} :
          /\ sess.of[m].pc = "ready"
          /\ Written("update_system_prompt", m, <<"system_prompts", use_case>>, "v",
                     [p \in {<<"system_prompts", use_case>>} |-> "v"])
    /\ UNCHANGED <<phase, raised, frameVars, textVars, batch, proc, gen, inv, view>>

NextSettings ==
    \/ InitializeFind
    \/ InitializeInsert
    \/ SetSetting
    \/ UpdateAiModelSettings
    \/ UpdateSystemPrompt

SpecSettings == InitSettings /\ [][NextSettings]_vars

---------------------------------------------------------------------------
(* Properties of the settings *)

\* set_setting (directly or through update_system_prompt) returned True
SetReturnedTrue ==
    sess.last.op \in {"set_setting", "update_system_prompt"} /\ sess.last.ret

\* get_setting(q, d) of the writing manager, after and before the write
ReadsNow(q, d) == GetSetting(sess.of[sess.last.m].available, store.settings, q, d)
ReadBefore(q, d) == GetSetting(sess.of[sess.last.m].available, sess.last.before, q, d)

C23_Singleton ==
    /\ Len(store.settings) <= 1
    /\ \A k \in 1..Len(store.settings) : store.settings[k].id = SettingsId
    /\ \A m \in Managers :
          (sess.of[m].inserted # "no" /\ sess.of[m].seen # <<>>)
              => sess.of[m].left = sess.of[m].seen

C23_Witness ==
    /\ sess.of[1].inserted = "yes"
    /\ sess.of[2].inserted = "duplicate"
    /\ sess.last.op = "set_setting"
    /\ sess.last.ret
    /\ sess.of[2].seen # <<>>
    /\ sess.of[2].seen[1].leaves # DefaultSettings

====
